---- MODULE Spec2Model ----
(***************************************************************************)
(* Model of the alonie-backend request handlers: the document store (User, *)
(* Companion, Conversation, Message collections with their indexes), the   *)
(* companion CRUD routes, the chat exchange route with its two provider    *)
(* wrappers, and the local login route.  Every handler is a sequence of    *)
(* steps, one per awaited store or provider call; requests in flight       *)
(* interleave at those steps.                                              *)
(***************************************************************************)
EXTENDS Integers, Sequences, FiniteSets, TLC

\* ------------------------------------------------------------------ bounds
MaxConc == 2        \* requests in flight at once in the concurrent specifications
MaxSeq == 3         \* requests served one after another in the sequential one
MaxHistory == 12    \* entries of the longest conversationHistory a body carries

\* ------------------------------------------------------- program constants
MessageMaxLen == 2000     \* messageSchema content maxlength
ChatMessageMax == 1000    \* body("message").isLength max
CompanionNameMax == 100   \* body("name").isLength max
TitleMax == 100           \* conversationSchema title maxlength
HistoryKeep == 10         \* conversationHistory.slice(-10)
MaxTokens == 200          \* config.maxTokens
Temperature == "0.7"      \* config.temperature

\* ------------------------------------------------------------- input sets
ClerkIds == {"u1", "u2"}                  \* verified token subjects (req.userId)
CompanionNames == {"Alex", "Luna"}
Slots == 1..MaxConc

\* Texts stand for strings of the given length; "  " is blank and trims to "".
TextLen(t) ==
  CASE t = "" -> 0
    [] t = "  " -> 2
    [] t = "hi" -> 2
    [] t = " hi " -> 4
    [] t = "reply" -> 5
    [] t = " reply " -> 7
    [] t = "LONG91" -> 91
    [] t = "LONG1001" -> 1001
    [] t = "LONG2001" -> 2001
    [] OTHER -> Len(t)

\* String.prototype.trim / the validator's and the schema's trim
Trim(t) ==
  CASE t = "  " -> ""
    [] t = " hi " -> "hi"
    [] t = " reply " -> "reply"
    [] OTHER -> t

VARIABLES
  companions,      \* Companion collection: sequence, _id = index
  conversations,   \* Conversation collection: sequence, _id = index
  messages,        \* Message collection: sequence in insertion order
  users,           \* User collection: sequence, _id = index
  now,             \* the clock read by new Date()
  env,             \* process.env: which provider keys are configured
  reqs,            \* the requests in flight, one record per slot
  conc,            \* how many requests the dispatcher lets run at once
  left,            \* requests still to arrive
  calls            \* provider HTTP calls made so far, per provider

vars == <<companions, conversations, messages, users, now, env, reqs, conc, left, calls>>

\* ---------------------------------------------------------------- responses
NoResp == [status |-> 0, message |-> "", error |-> "", data |-> <<>>, count |-> 0]

Resp(status, message) == [NoResp EXCEPT !.status = status, !.message = message]

RespErr(status, message, error) ==
  [NoResp EXCEPT !.status = status, !.message = message, !.error = error]

RespData(status, message, data, count) ==
  [NoResp EXCEPT !.status = status, !.message = message, !.data = data, !.count = count]

ValidationFailed == Resp(400, "validation")
CompanionNotFound == Resp(404, "Companion not found")
ServerError == Resp(500, "Server error")
ApiKeyMissing ==
  RespErr(500, "No API keys configured for the selected model", "API_KEY_MISSING")

\* ----------------------------------------------------------------- requests
\* No request body has gone out to a provider.
NoRequest == [provider |-> "none"]

\* history is the body's conversationHistory (<<>> when absent or empty), sent
\* the body of the provider call the request made, responses the number of
\* responses written for the request.
Idle ==
  [kind |-> "none", pc |-> "idle", user |-> "", cid |-> 0, name |-> "",
   model |-> "", msg |-> "", cname |-> "", conv |-> 0, reply |-> "",
   raw |-> "", umsg |-> 0, amsg |-> 0, called |-> FALSE, created |-> 0,
   seen |-> 0, last0 |-> 0, calls0 |-> 0, page |-> 0, limit |-> 0, email |-> "",
   password |-> "", found |-> 0, history |-> <<>>, sent |-> NoRequest, responses |-> 0,
   resp |-> NoResp]

\* A slot takes a new request when it is free, lower slots are taken first,
\* and the dispatcher's concurrency and the arrival budget allow it.
CanStart(r) ==
  /\ r <= conc
  /\ left > 0
  /\ reqs[r].pc \in {"idle", "done"}
  /\ \A q \in Slots : q < r => reqs[q].pc # "idle"

\* res.status(...).json(...) followed by the handler's return
Finish(r, rec, resp) ==
  reqs' = [reqs EXCEPT ![r] = [rec EXCEPT !.pc = "done", !.resp = resp,
                                          !.responses = rec.responses + 1]]

Goto(r, rec, pc) == reqs' = [reqs EXCEPT ![r] = [rec EXCEPT !.pc = pc]]

\* ------------------------------------------------------------ store queries
CompanionIds == 1..Len(companions)

\* An id that is no ObjectId: the query throws a CastError of kind "ObjectId".
Malformed(id) == id < 0

\* A filter that forgets the owner.
ActiveAnyOwner(u, id) ==
  /\ id \in CompanionIds
  /\ companions[id].isActive

\* Companion.findOne({_id, userId, isActive: true})
OwnedActive(u, id) ==
  /\ id \in CompanionIds
  /\ companions[id].userId = u
  /\ companions[id].isActive

\* Companion.findOne({_id, $or: [{userId}, {isDefault: true}], isActive: true})
OwnedOrDefaultActive(u, id) ==
  /\ id \in CompanionIds
  /\ companions[id].userId = u \/ companions[id].isDefault
  /\ companions[id].isActive

\* Conversation.findOne({userId, companionId, isActive: true}); 0 when none
FindConversation(u, cid) ==
  LET hits == {i \in 1..Len(conversations) :
                 /\ conversations[i].userId = u
                 /\ conversations[i].companionId = cid
                 /\ conversations[i].isActive}
  IN IF hits = {} THEN 0 ELSE CHOOSE i \in hits : \A j \in hits : i <= j

\* An index that is not unique accepts anything.
ConversationIndexNotUnique(u, cid) == TRUE

\* conversationSchema.index({userId: 1, companionId: 1}, {unique: true}):
\* the insert is accepted iff no record, active or not, has the same pair.
ConversationIndexAccepts(u, cid) ==
  ~ \E i \in 1..Len(conversations) :
      conversations[i].userId = u /\ conversations[i].companionId = cid

\* ------------------------------------------------------- /api/companions
\* companionSchema: isDefault is no path of the schema, so no stored record
\* carries it; the field is kept FALSE to evaluate the chat routes' filter.
Companion(name, u, active, t) ==
  [name |-> name, description |-> "d0", userId |-> u, isActive |-> active,
   isDefault |-> FALSE, createdAt |-> t]

\* express-validator: name trimmed, 1..100 characters
CompanionNameValid(name) ==
  TextLen(Trim(name)) >= 1 /\ TextLen(Trim(name)) <= CompanionNameMax

\* A name lookup that forgets to exclude the record itself.
NameTakenIncludingSelf(name, u, except) ==
  \E i \in CompanionIds :
    /\ companions[i].name = name
    /\ companions[i].userId = u
    /\ companions[i].isActive

\* Companion.findOne({name, userId, isActive: true, _id: {$ne: except}})
NameTaken(name, u, except) ==
  \E i \in CompanionIds :
    /\ i # except
    /\ companions[i].name = name
    /\ companions[i].userId = u
    /\ companions[i].isActive

NameConflict == Resp(400, "A companion with this name already exists")

\* The ids of a set of records, newest first: .sort({createdAt: -1})
RECURSIVE NewestFirst(_)
NewestFirst(ids) ==
  IF ids = {} THEN <<>>
  ELSE LET top == CHOOSE i \in ids :
                    \A j \in ids : \/ companions[i].createdAt > companions[j].createdAt
                                   \/ companions[i].createdAt = companions[j].createdAt /\ i >= j
       IN <<top>> \o NewestFirst(ids \ {top})

\* GET /api/companions
ListCompanions(r, u) ==
  /\ CanStart(r)
  /\ left' = left - 1
  /\ LET ids == {i \in CompanionIds : companions[i].userId = u /\ companions[i].isActive}
     IN Finish(r, [Idle EXCEPT !.kind = "list", !.user = u],
               RespData(200, "", NewestFirst(ids), Cardinality(ids)))
  /\ UNCHANGED <<companions, conversations, messages, users, now, env, conc, calls>>

\* GET /api/companions/:id; id 0 is a malformed id (CastError, kind ObjectId)
GetCompanion(r, u, id) ==
  /\ CanStart(r)
  /\ left' = left - 1
  /\ Finish(r, [Idle EXCEPT !.kind = "get", !.user = u, !.cid = id],
            IF OwnedActive(u, id) THEN RespData(200, "", <<id>>, 0) ELSE CompanionNotFound)
  /\ UNCHANGED <<companions, conversations, messages, users, now, env, conc, calls>>

\* POST /api/companions: validation, then the findOne on (name, userId, isActive)
CreateCompanionStart(r, u, name) ==
  /\ CanStart(r)
  /\ left' = left - 1
  /\ LET rec == [Idle EXCEPT !.kind = "create", !.user = u, !.name = Trim(name),
                             !.seen = Len(companions)]
     IN IF ~CompanionNameValid(name) THEN Finish(r, rec, ValidationFailed)
        ELSE IF NameTaken(Trim(name), u, 0) THEN Finish(r, rec, NameConflict)
        ELSE Goto(r, rec, "save")
  /\ UNCHANGED <<companions, conversations, messages, users, now, env, conc, calls>>

\* companionSchema.index({name: 1, userId: 1}) is not unique: the insert is
\* accepted whatever the collection holds.
CompanionInsertAccepted(name, u) == TRUE

\* companion.save()
CreateCompanionSave(r) ==
  /\ reqs[r].kind = "create" /\ reqs[r].pc = "save"
  /\ IF CompanionInsertAccepted(reqs[r].name, reqs[r].user)
       THEN /\ companions' = Append(companions,
                 Companion(reqs[r].name, reqs[r].user, TRUE, now + 1))
            /\ now' = now + 1
            /\ Finish(r, [reqs[r] EXCEPT !.created = Len(companions) + 1],
                      RespData(201, "Companion created successfully", <<Len(companions) + 1>>, 0))
       ELSE /\ Finish(r, reqs[r], ServerError)
            /\ UNCHANGED <<companions, now>>
  /\ UNCHANGED <<conversations, messages, users, env, conc, left, calls>>

\* PUT /api/companions/:id: validation, then (when a name is given) the
\* findOne on the name excluding the record itself.  name "" and desc ""
\* are absent fields.
UpdateCompanionStart(r, u, id, name, desc) ==
  /\ CanStart(r)
  /\ left' = left - 1
  /\ LET rec == [Idle EXCEPT !.kind = "update", !.user = u, !.cid = id,
                             !.name = Trim(name), !.msg = desc]
     IN IF name # "" /\ ~CompanionNameValid(name) THEN Finish(r, rec, ValidationFailed)
        ELSE IF name # "" /\ Malformed(id) THEN Finish(r, rec, CompanionNotFound)
        ELSE IF name # "" /\ NameTaken(Trim(name), u, id) THEN Finish(r, rec, NameConflict)
        ELSE Goto(r, rec, "findOneAndUpdate")
  /\ UNCHANGED <<companions, conversations, messages, users, now, env, conc, calls>>

\* updateFields applied to a record
ApplyUpdate(c, name, desc) ==
  [c EXCEPT !.name = IF name = "" THEN @ ELSE name,
            !.description = IF desc = "" THEN @ ELSE desc]

\* Companion.findOneAndUpdate({_id, userId, isActive: true}, updateFields)
UpdateCompanionApply(r) ==
  /\ reqs[r].kind = "update" /\ reqs[r].pc = "findOneAndUpdate"
  /\ IF OwnedActive(reqs[r].user, reqs[r].cid)
       THEN /\ companions' = [companions EXCEPT
                 ![reqs[r].cid] = ApplyUpdate(@, reqs[r].name, reqs[r].msg)]
            /\ Finish(r, reqs[r],
                      RespData(200, "Companion updated successfully", <<reqs[r].cid>>, 0))
       ELSE /\ Finish(r, reqs[r], CompanionNotFound)
            /\ UNCHANGED companions
  /\ UNCHANGED <<conversations, messages, users, now, env, conc, left, calls>>

\* DELETE /api/companions/:id: the findOne on (_id, userId, isActive)
DeleteCompanionStart(r, u, id) ==
  /\ CanStart(r)
  /\ left' = left - 1
  /\ LET rec == [Idle EXCEPT !.kind = "delete", !.user = u, !.cid = id]
     IN IF OwnedActive(u, id) THEN Goto(r, rec, "softDelete")
        ELSE Finish(r, rec, CompanionNotFound)
  /\ UNCHANGED <<companions, conversations, messages, users, now, env, conc, calls>>

\* A delete that also removes the companion's messages.
DeleteCompanionCascade(r) ==
  /\ reqs[r].kind = "delete" /\ reqs[r].pc = "softDelete"
  /\ companions' = [companions EXCEPT ![reqs[r].cid].isActive = FALSE]
  /\ messages' = SelectSeq(messages, LAMBDA m : m.companionId # reqs[r].cid)
  /\ Finish(r, reqs[r], Resp(200, "Companion deleted successfully"))
  /\ UNCHANGED <<conversations, users, now, env, conc, left, calls>>

\* A delete that also closes the companion's conversations.
DeleteCompanionClosesConversations(r) ==
  /\ reqs[r].kind = "delete" /\ reqs[r].pc = "softDelete"
  /\ companions' = [companions EXCEPT ![reqs[r].cid].isActive = FALSE]
  /\ conversations' = [i \in 1..Len(conversations) |->
        IF conversations[i].companionId = reqs[r].cid
          THEN [conversations[i] EXCEPT !.isActive = FALSE]
          ELSE conversations[i]]
  /\ Finish(r, reqs[r], Resp(200, "Companion deleted successfully"))
  /\ UNCHANGED <<messages, users, now, env, conc, left, calls>>

\* Companion.findByIdAndUpdate(id, {isActive: false})
DeleteCompanionApply(r) ==
  /\ reqs[r].kind = "delete" /\ reqs[r].pc = "softDelete"
  /\ companions' = [companions EXCEPT ![reqs[r].cid].isActive = FALSE]
  /\ Finish(r, reqs[r], Resp(200, "Companion deleted successfully"))
  /\ UNCHANGED <<conversations, messages, users, now, env, conc, left, calls>>

\* ------------------------------------------------------------ the providers
Models == {"openai", "gemini"}

\* What the provider's HTTP endpoint can answer: the call rejects ("throw"),
\* a non-OK status ("http"), a body without choices/candidates ("nochoice"),
\* or a body whose first completion carries the given text.
RawResponses == {"throw", "http", "nochoice", "", "  ", " reply ", "LONG2001"}

Failed(msg) == [ok |-> FALSE, response |-> "", error |-> msg]

Completed(text) == [ok |-> TRUE, response |-> text, error |-> ""]

getOpenAIResponse(raw) ==
  IF raw = "throw" THEN Failed("Failed to get response from OpenAI model: fetch failed")
  ELSE IF raw = "http"
    THEN Failed("Failed to get response from OpenAI model: OpenAI API error: Unable to read response")
  ELSE IF raw = "nochoice"
    THEN Failed("Failed to get response from OpenAI model: Invalid response structure from OpenAI API - no choices")
  ELSE IF raw = ""
    THEN Failed("Failed to get response from OpenAI model: Invalid response structure from OpenAI API - no message content")
  ELSE IF Trim(raw) = ""
    THEN Failed("Failed to get response from OpenAI model: Empty response from OpenAI API")
  ELSE Completed(Trim(raw))

getGeminiResponse(raw) ==
  IF raw = "throw" THEN Failed("Failed to get response from Gemini model: fetch failed")
  ELSE IF raw = "http"
    THEN Failed("Failed to get response from Gemini model: Gemini API error: Unable to read response")
  ELSE IF raw = "nochoice"
    THEN Failed("Failed to get response from Gemini model: Invalid response structure from Gemini API - no candidates")
  ELSE IF raw = ""
    THEN Failed("Failed to get response from Gemini model: No text generated from Gemini API")
  ELSE IF Trim(raw) = ""
    THEN Failed("Failed to get response from Gemini model: Empty response from Gemini API")
  ELSE Completed(Trim(raw))

\* buildSystemPrompt(companion)
buildSystemPrompt(cname) == "You are " \o cname

\* A history that is passed on whole.
SliceAll(seq, n) == seq

\* Array.prototype.slice(-n): the last n entries, all of them when fewer
SliceLast(seq, n) ==
  IF Len(seq) <= n THEN seq ELSE SubSeq(seq, Len(seq) - n + 1, Len(seq))

\* getOpenAIResponse: the messages array and the request body
OpenAIRequestBody(cname, userMessage, conversationHistory) ==
  [provider |-> "openai",
   model |-> "gpt-3.5-turbo",
   messages |-> <<[role |-> "system", content |-> buildSystemPrompt(cname)]>>
                  \o SliceLast(conversationHistory, HistoryKeep)
                  \o <<[role |-> "user", content |-> userMessage]>>,
   max_tokens |-> MaxTokens,
   temperature |-> Temperature]

\* getGeminiResponse: conversationContext, one text, as the pieces it is
\* concatenated from; each piece is a label and the text after it.
GeminiContext(cname, userMessage, conversationHistory) ==
  LET recentHistory == SliceLast(conversationHistory, HistoryKeep)
  IN <<<<"", buildSystemPrompt(cname)>>>>
       \o (IF Len(conversationHistory) > 0
             THEN <<<<"Previous conversation:", "">>>>
                    \o [i \in 1..Len(recentHistory) |->
                          <<IF recentHistory[i].role = "user" THEN "User: " ELSE "Assistant: ",
                            recentHistory[i].content>>]
             ELSE <<>>)
       \o <<<<"User: ", userMessage>>, <<"Assistant:", "">>>>

\* getGeminiResponse: the request body; generationConfig is commented out, so
\* the body carries the contents only.
GeminiRequestBody(cname, userMessage, conversationHistory) ==
  [provider |-> "gemini",
   contents |-> <<[parts |-> <<[text |-> GeminiContext(cname, userMessage, conversationHistory)]>>]>>]

\* The body of the call to provider p.
RequestBody(p, cname, userMessage, conversationHistory) ==
  IF p = "gemini" THEN GeminiRequestBody(cname, userMessage, conversationHistory)
  ELSE OpenAIRequestBody(cname, userMessage, conversationHistory)

\* A dispatch that falls through to whichever provider has a key.
SelectProviderAnyKey(model, e) ==
  IF model = "gemini" /\ e.gemini THEN "gemini"
  ELSE IF e.openai THEN "openai"
  ELSE IF e.gemini THEN "gemini"
  ELSE "none"

\* The dispatch of POST /chat: the provider called for the requested model,
\* "none" when its key is not configured.
SelectProvider(model, e) ==
  IF model = "gemini" /\ e.gemini THEN "gemini"
  ELSE IF model = "openai" /\ e.openai THEN "openai"
  ELSE "none"

\* The older catch block: a canned reply instead of the error.
ProviderFailureFallback(model, result) == Resp(200, "canned")

\* The catch block around the provider dispatch.
ProviderFailure(model, result) ==
  RespErr(500, "Failed to get response from " \o model \o " model", result.error)

\* ------------------------------------------------------------ POST /api/chat
NewConversation(u, cid, cname, t) ==
  [userId |-> u, companionId |-> cid, title |-> "Chat with " \o cname,
   lastMessageAt |-> t, isActive |-> TRUE, createdAt |-> t]

NewMessage(conv, u, cid, content, isUser, t) ==
  [conversationId |-> conv, userId |-> u, companionId |-> cid,
   content |-> Trim(content), isUser |-> isUser, timestamp |-> t]

\* conversationSchema: title maxlength 100; the title is "Chat with " and the
\* companion's name
ConversationValid(cname) == TextLen("Chat with ") + TextLen(cname) <= TitleMax

\* messageSchema: content required, maxlength 2000 (after the schema's trim)
MessageValid(m) == m.content # "" /\ TextLen(m.content) <= MessageMaxLen

\* A final save that writes a stale value back.
BumpLastMessageAtStale(c, t) == [c EXCEPT !.lastMessageAt = 0]

\* conversation.lastMessageAt = new Date(); conversation.save()
BumpLastMessageAt(c, t) == [c EXCEPT !.lastMessageAt = t]

\* express-validator chain of POST /chat; model "" is an absent field,
\* cid 0 an absent companionId.
ChatInputValid(cid, msg, model) ==
  /\ cid # 0
  /\ TextLen(Trim(msg)) >= 1 /\ TextLen(Trim(msg)) <= ChatMessageMax
  /\ model \in Models \cup {""}

\* What the request finds on arrival is kept to compare with what it leaves:
\* the number of stored messages, the number of provider calls made, and the
\* lastMessageAt of the pair's conversation, 0 when there is none.
LastMessageAtOf(u, cid) ==
  IF FindConversation(u, cid) = 0 THEN 0
  ELSE conversations[FindConversation(u, cid)].lastMessageAt

\* Validation, then Companion.findOne; h is the body's conversationHistory,
\* which no validator looks at.
PostChatStartWithHistory(r, u, cid, msg, model, h) ==
  /\ CanStart(r)
  /\ left' = left - 1
  /\ LET rec == [Idle EXCEPT !.kind = "chat", !.user = u, !.cid = cid,
                             !.msg = Trim(msg), !.history = h,
                             !.model = IF model = "" THEN "openai" ELSE model,
                             !.seen = Len(messages),
                             !.last0 = LastMessageAtOf(u, cid),
                             !.calls0 = calls.openai + calls.gemini]
     IN IF ~ChatInputValid(cid, msg, model)
          THEN Finish(r, [rec EXCEPT !.model = model], ValidationFailed)
        ELSE IF Malformed(cid)
          THEN Finish(r, rec, ServerError)
        ELSE IF ~OwnedOrDefaultActive(u, cid)
          THEN Finish(r, rec, CompanionNotFound)
        ELSE Goto(r, [rec EXCEPT !.cname = companions[cid].name], "findConversation")
  /\ UNCHANGED <<companions, conversations, messages, users, now, env, conc, calls>>

\* POST /chat with a body without conversationHistory
PostChatStart(r, u, cid, msg, model) == PostChatStartWithHistory(r, u, cid, msg, model, <<>>)

\* Conversation.findOne
PostChatFindConversation(r) ==
  /\ reqs[r].kind = "chat" /\ reqs[r].pc = "findConversation"
  /\ LET c == FindConversation(reqs[r].user, reqs[r].cid)
     IN Goto(r, [reqs[r] EXCEPT !.conv = c],
             IF c = 0 THEN "saveConversation" ELSE "saveUserMessage")
  /\ UNCHANGED <<companions, conversations, messages, users, now, env, conc, left, calls>>

\* new Conversation(...).save(): a validation or duplicate-key error lands in
\* the outer catch
PostChatSaveConversation(r) ==
  /\ reqs[r].kind = "chat" /\ reqs[r].pc = "saveConversation"
  /\ IF ConversationValid(reqs[r].cname) /\ ConversationIndexAccepts(reqs[r].user, reqs[r].cid)
       THEN /\ conversations' = Append(conversations,
                 NewConversation(reqs[r].user, reqs[r].cid, reqs[r].cname, now + 1))
            /\ now' = now + 1
            /\ Goto(r, [reqs[r] EXCEPT !.conv = Len(conversations) + 1,
                                       !.created = Len(conversations) + 1],
                    "saveUserMessage")
       ELSE /\ Finish(r, reqs[r], ServerError)
            /\ UNCHANGED <<conversations, now>>
  /\ UNCHANGED <<companions, messages, users, env, conc, left, calls>>

\* A dispatch that does not store the caller's message first.
PostChatDispatchUnsaved(r) ==
  /\ reqs[r].kind = "chat" /\ reqs[r].pc = "saveUserMessage"
  /\ LET p == SelectProvider(reqs[r].model, env)
     IN IF p = "none"
          THEN /\ Finish(r, reqs[r], ApiKeyMissing)
               /\ calls' = calls
          ELSE /\ Goto(r, [reqs[r] EXCEPT !.called = TRUE], "awaitProvider")
               /\ calls' = [calls EXCEPT ![p] = @ + 1]
  /\ UNCHANGED <<companions, conversations, messages, users, now, env, conc, left>>

\* userMessage.save(), then the dispatch up to the provider's fetch
PostChatSaveUserMessage(r) ==
  /\ reqs[r].kind = "chat" /\ reqs[r].pc = "saveUserMessage"
  /\ messages' = Append(messages,
        NewMessage(reqs[r].conv, reqs[r].user, reqs[r].cid, reqs[r].msg, TRUE, now + 1))
  /\ now' = now + 1
  /\ LET rec == [reqs[r] EXCEPT !.umsg = Len(messages) + 1]
         p == SelectProvider(reqs[r].model, env)
     IN IF p = "none"
          THEN /\ Finish(r, rec, ApiKeyMissing)
               /\ calls' = calls
          ELSE /\ Goto(r, [rec EXCEPT !.called = TRUE,
                                      !.sent = RequestBody(p, reqs[r].cname, reqs[r].msg,
                                                           reqs[r].history)],
                       "awaitProvider")
               /\ calls' = [calls EXCEPT ![p] = @ + 1]
  /\ UNCHANGED <<companions, conversations, users, env, conc, left>>

\* A catch block that logs the provider's failure and sends nothing.
PostChatProviderReturnSilent(r, raw) ==
  /\ reqs[r].kind = "chat" /\ reqs[r].pc = "awaitProvider"
  /\ LET result == IF reqs[r].model = "gemini" THEN getGeminiResponse(raw)
                   ELSE getOpenAIResponse(raw)
         rec == [reqs[r] EXCEPT !.raw = raw]
     IN IF result.ok
          THEN Goto(r, [rec EXCEPT !.reply = result.response], "saveAiMessage")
          ELSE Goto(r, rec, "returned")
  /\ UNCHANGED <<companions, conversations, messages, users, now, env, conc, left, calls>>

\* the provider's answer arrives: getOpenAIResponse / getGeminiResponse return
PostChatProviderReturn(r, raw) ==
  /\ reqs[r].kind = "chat" /\ reqs[r].pc = "awaitProvider"
  /\ LET result == IF reqs[r].model = "gemini" THEN getGeminiResponse(raw)
                   ELSE getOpenAIResponse(raw)
         rec == [reqs[r] EXCEPT !.raw = raw]
     IN IF result.ok
          THEN Goto(r, [rec EXCEPT !.reply = result.response], "saveAiMessage")
          ELSE Finish(r, rec, ProviderFailure(reqs[r].model, result))
  /\ UNCHANGED <<companions, conversations, messages, users, now, env, conc, left, calls>>

\* aiMessage.save(): a schema validation error lands in the outer catch
PostChatSaveAiMessage(r) ==
  /\ reqs[r].kind = "chat" /\ reqs[r].pc = "saveAiMessage"
  /\ LET m == NewMessage(reqs[r].conv, reqs[r].user, reqs[r].cid, reqs[r].reply, FALSE, now + 1)
     IN IF MessageValid(m)
          THEN /\ messages' = Append(messages, m)
               /\ now' = now + 1
               /\ Goto(r, [reqs[r] EXCEPT !.amsg = Len(messages) + 1], "saveLastMessageAt")
          ELSE /\ Finish(r, reqs[r], ServerError)
               /\ UNCHANGED <<messages, now>>
  /\ UNCHANGED <<companions, conversations, users, env, conc, left, calls>>

\* conversation.lastMessageAt = new Date(); conversation.save(); res.json
PostChatSaveLastMessageAt(r) ==
  /\ reqs[r].kind = "chat" /\ reqs[r].pc = "saveLastMessageAt"
  /\ conversations' = [conversations EXCEPT
        ![reqs[r].conv] = BumpLastMessageAt(@, now + 1)]
  /\ now' = now + 1
  /\ Finish(r, reqs[r], RespData(200, reqs[r].reply, <<reqs[r].umsg, reqs[r].amsg>>, 0))
  /\ UNCHANGED <<companions, messages, users, env, conc, left, calls>>

\* --------------------------------------- GET /api/chat/:companionId/messages
\* The ids of a conversation's messages, latest first: .sort({timestamp: -1})
RECURSIVE LatestFirst(_)
LatestFirst(ids) ==
  IF ids = {} THEN <<>>
  ELSE LET top == CHOOSE i \in ids :
                    \A j \in ids : \/ messages[i].timestamp > messages[j].timestamp
                                   \/ messages[i].timestamp = messages[j].timestamp /\ i >= j
       IN <<top>> \o LatestFirst(ids \ {top})

\* .skip(n): the sequence without its first n entries
Skip(seq, n) == IF n >= Len(seq) THEN <<>> ELSE SubSeq(seq, n + 1, Len(seq))

\* .limit(n): at most the first n entries
Limit(seq, n) == IF n >= Len(seq) THEN seq ELSE SubSeq(seq, 1, n)

\* Array.prototype.reverse
Reverse(seq) == [i \in 1..Len(seq) |-> seq[Len(seq) + 1 - i]]

\* Message.find({conversationId}).sort({timestamp: -1}).skip(skip).limit(limit),
\* reversed
MessagePage(conv, page, limit) ==
  LET ids == {i \in 1..Len(messages) : messages[i].conversationId = conv}
  IN Reverse(Limit(Skip(LatestFirst(ids), (page - 1) * limit), limit))

\* the Companion.findOne of the route
GetMessagesStart(r, u, cid, page, limit) ==
  /\ CanStart(r)
  /\ left' = left - 1
  /\ LET rec == [Idle EXCEPT !.kind = "messages", !.user = u, !.cid = cid,
                             !.page = page, !.limit = limit]
     IN IF Malformed(cid) THEN Finish(r, rec, ServerError)
        ELSE IF OwnedOrDefaultActive(u, cid) THEN Goto(r, rec, "findConversation")
        ELSE Finish(r, rec, CompanionNotFound)
  /\ UNCHANGED <<companions, conversations, messages, users, now, env, conc, calls>>

\* Conversation.findOne
GetMessagesFindConversation(r) ==
  /\ reqs[r].kind = "messages" /\ reqs[r].pc = "findConversation"
  /\ LET c == FindConversation(reqs[r].user, reqs[r].cid)
     IN IF c = 0 THEN Finish(r, reqs[r], RespData(200, "No conversation found", <<>>, 0))
        ELSE Goto(r, [reqs[r] EXCEPT !.conv = c], "findMessages")
  /\ UNCHANGED <<companions, conversations, messages, users, now, env, conc, left, calls>>

\* Message.find ... and the response
GetMessagesFind(r) ==
  /\ reqs[r].kind = "messages" /\ reqs[r].pc = "findMessages"
  /\ LET data == MessagePage(reqs[r].conv, reqs[r].page, reqs[r].limit)
     IN Finish(r, reqs[r], RespData(200, "", data, Len(data)))
  /\ UNCHANGED <<companions, conversations, messages, users, now, env, conc, left, calls>>

\* ------------------------------------------------ GET /api/chat/conversations
\* The ids of a set of conversations, latest lastMessageAt first.
RECURSIVE LatestConversationFirst(_)
LatestConversationFirst(ids) ==
  IF ids = {} THEN <<>>
  ELSE LET top == CHOOSE i \in ids :
                    \A j \in ids :
                      \/ conversations[i].lastMessageAt > conversations[j].lastMessageAt
                      \/ conversations[i].lastMessageAt = conversations[j].lastMessageAt /\ i >= j
       IN <<top>> \o LatestConversationFirst(ids \ {top})

\* Conversation.find({userId, isActive: true}).sort({lastMessageAt: -1}) and
\* Conversation.countDocuments of the same filter
ListConversations(r, u) ==
  /\ CanStart(r)
  /\ left' = left - 1
  /\ LET ids == {i \in 1..Len(conversations) :
                  conversations[i].userId = u /\ conversations[i].isActive}
     IN Finish(r, [Idle EXCEPT !.kind = "conversations", !.user = u],
               RespData(200, "", LatestConversationFirst(ids), Cardinality(ids)))
  /\ UNCHANGED <<companions, conversations, messages, users, now, env, conc, calls>>

\* ------------------------------------------------- the chat specification
\* Two users, each with one active companion, and a soft-deleted companion.
InitChat ==
  /\ companions = << Companion("Alex", "u1", TRUE, 1), Companion("Alex", "u2", TRUE, 2),
                     Companion("Luna", "u1", FALSE, 3) >>
  /\ conversations = <<>>
  /\ messages = <<>>
  /\ users = <<>>
  /\ now = 3
  /\ env = [openai |-> TRUE, gemini |-> FALSE]
  /\ reqs = [r \in Slots |-> Idle]
  /\ conc = MaxConc
  /\ left = MaxConc
  /\ calls = [openai |-> 0, gemini |-> 0]

NextChat ==
  \/ \E r \in Slots, u \in ClerkIds, cid \in 1..2, model \in Models :
       PostChatStart(r, u, cid, " hi ", model)
  \/ \E r \in Slots : PostChatFindConversation(r)
  \/ \E r \in Slots : PostChatSaveConversation(r)
  \/ \E r \in Slots : PostChatSaveUserMessage(r)
  \/ \E r \in Slots, raw \in {"http", " reply "} : PostChatProviderReturn(r, raw)
  \/ \E r \in Slots : PostChatSaveAiMessage(r)
  \/ \E r \in Slots : PostChatSaveLastMessageAt(r)

SpecChat == InitChat /\ [][NextChat]_vars

\* ------------------------- chat requests and companion edits in flight
\* The store of InitChat; POST /chat interleaved with the update and the
\* soft delete of the companions talked to.
NextChatEdit ==
  \/ NextChat
  \/ \E r \in Slots, u \in ClerkIds, id \in 1..2 : UpdateCompanionStart(r, u, id, "Luna", "")
  \/ \E r \in Slots : UpdateCompanionApply(r)
  \/ \E r \in Slots, u \in ClerkIds, id \in 1..2 : DeleteCompanionStart(r, u, id)
  \/ \E r \in Slots : DeleteCompanionApply(r)

SpecChatEdit == InitChat /\ [][NextChatEdit]_vars

\* ------------------------------------------ what goes out to the provider
\* A conversationHistory of n entries, user and assistant in turn.
History(n) ==
  [i \in 1..n |-> [role |-> IF i % 2 = 1 THEN "user" ELSE "assistant",
                    content |-> "h" \o ToString(i)]]

\* Both keys are configured; u1 sends a message to Alex with every history
\* of up to MaxHistory entries and either model.
InitDispatch ==
  /\ companions = << Companion("Alex", "u1", TRUE, 1), Companion("Alex", "u2", TRUE, 2),
                     Companion("Luna", "u1", FALSE, 3) >>
  /\ conversations = <<>>
  /\ messages = <<>>
  /\ users = <<>>
  /\ now = 3
  /\ env = [openai |-> TRUE, gemini |-> TRUE]
  /\ reqs = [r \in Slots |-> Idle]
  /\ conc = 1
  /\ left = MaxSeq
  /\ calls = [openai |-> 0, gemini |-> 0]

NextDispatch ==
  \/ \E r \in Slots, model \in Models, n \in 0..MaxHistory :
       PostChatStartWithHistory(r, "u1", 1, " hi ", model, History(n))
  \/ \E r \in Slots : PostChatFindConversation(r)
  \/ \E r \in Slots : PostChatSaveConversation(r)
  \/ \E r \in Slots : PostChatSaveUserMessage(r)
  \/ \E r \in Slots, raw \in {"http", " reply "} : PostChatProviderReturn(r, raw)
  \/ \E r \in Slots : PostChatSaveAiMessage(r)
  \/ \E r \in Slots : PostChatSaveLastMessageAt(r)

SpecDispatch == InitDispatch /\ [][NextDispatch]_vars

\* --------------------------------- POST /chat, every awaited call returns
\* The store of InitChat (no gemini key) with requests in flight on every
\* path of the handler: an invalid body, a foreign companion, a model without
\* key, a provider failure, a refused store write, a completed exchange.
NextChatLive ==
  \/ \E r \in Slots, cid \in 1..2, msg \in {" hi ", "  "}, model \in Models :
       PostChatStart(r, "u1", cid, msg, model)
  \/ \E r \in Slots : PostChatFindConversation(r)
  \/ \E r \in Slots : PostChatSaveConversation(r)
  \/ \E r \in Slots : PostChatSaveUserMessage(r)
  \/ \E r \in Slots, raw \in {"throw", " reply ", "LONG2001"} : PostChatProviderReturn(r, raw)
  \/ \E r \in Slots : PostChatSaveAiMessage(r)
  \/ \E r \in Slots : PostChatSaveLastMessageAt(r)

\* The awaited call request r is suspended on returns or throws.
ChatStep(r) ==
  \/ PostChatFindConversation(r)
  \/ PostChatSaveConversation(r)
  \/ PostChatSaveUserMessage(r)
  \/ \E raw \in {"throw", " reply ", "LONG2001"} : PostChatProviderReturn(r, raw)
  \/ PostChatSaveAiMessage(r)
  \/ PostChatSaveLastMessageAt(r)

SpecChatLive ==
  /\ InitChat
  /\ [][NextChatLive]_vars
  /\ \A r \in Slots : WF_vars(ChatStep(r))

\* ---------------------------------------- the chat exchange, one at a time
\* Every input of POST /chat, every key configuration and every provider
\* answer, with the message history read back.
InitExchange ==
  /\ companions = << Companion("Alex", "u1", TRUE, 1), Companion("Alex", "u2", TRUE, 2),
                     Companion("Luna", "u1", FALSE, 3) >>
  /\ conversations = <<>>
  /\ messages = <<>>
  /\ users = <<>>
  /\ now = 3
  /\ env \in [openai : BOOLEAN, gemini : BOOLEAN]
  /\ reqs = [r \in Slots |-> Idle]
  /\ conc = 1
  /\ left = MaxSeq
  /\ calls = [openai |-> 0, gemini |-> 0]

ChatTexts == {" hi ", "  ", "LONG1001"}

NextExchange ==
  \/ \E r \in Slots, u \in ClerkIds, cid \in -1..4, msg \in ChatTexts,
        model \in Models \cup {"", "bad"} :
       PostChatStart(r, u, cid, msg, model)
  \/ \E r \in Slots : PostChatFindConversation(r)
  \/ \E r \in Slots : PostChatSaveConversation(r)
  \/ \E r \in Slots : PostChatSaveUserMessage(r)
  \/ \E r \in Slots, raw \in RawResponses : PostChatProviderReturn(r, raw)
  \/ \E r \in Slots : PostChatSaveAiMessage(r)
  \/ \E r \in Slots : PostChatSaveLastMessageAt(r)
  \/ \E r \in Slots, u \in ClerkIds, cid \in 1..2, page \in 1..2, limit \in {1, 50} :
       GetMessagesStart(r, u, cid, page, limit)
  \/ \E r \in Slots : GetMessagesFindConversation(r)
  \/ \E r \in Slots : GetMessagesFind(r)

SpecExchange == InitExchange /\ [][NextExchange]_vars

\* -------------------------------------------- the sequential specification
\* The same store, served one request at a time: the companion routes, the
\* chat route and the message history.
InitSeq ==
  /\ companions = << Companion("Alex", "u1", TRUE, 1), Companion("Alex", "u2", TRUE, 2),
                     Companion("Luna", "u1", FALSE, 3) >>
  /\ conversations = <<>>
  /\ messages = <<>>
  /\ users = <<>>
  /\ now = 3
  /\ env = [openai |-> TRUE, gemini |-> FALSE]
  /\ reqs = [r \in Slots |-> Idle]
  /\ conc = 1
  /\ left = MaxSeq
  /\ calls = [openai |-> 0, gemini |-> 0]

\* ids a caller can name: every stored companion and one unknown id
KnownOrUnknown == 1..(Len(companions) + 1)

CompanionStarts ==
  \/ \E r \in Slots, u \in ClerkIds : ListCompanions(r, u)
  \/ \E r \in Slots, u \in ClerkIds, id \in KnownOrUnknown : GetCompanion(r, u, id)
  \/ \E r \in Slots, u \in ClerkIds, name \in CompanionNames : CreateCompanionStart(r, u, name)
  \/ \E r \in Slots, u \in ClerkIds, id \in KnownOrUnknown, name \in CompanionNames \cup {""} :
       UpdateCompanionStart(r, u, id, name, IF name = "" THEN "d1" ELSE "")
  \/ \E r \in Slots, u \in ClerkIds, id \in KnownOrUnknown : DeleteCompanionStart(r, u, id)

CompanionSteps ==
  \/ \E r \in Slots : CreateCompanionSave(r)
  \/ \E r \in Slots : UpdateCompanionApply(r)
  \/ \E r \in Slots : DeleteCompanionApply(r)

NextSeq ==
  \/ CompanionStarts
  \/ CompanionSteps
  \/ \E r \in Slots, u \in ClerkIds, cid \in KnownOrUnknown :
       PostChatStart(r, u, cid, " hi ", "")
  \/ \E r \in Slots : PostChatFindConversation(r)
  \/ \E r \in Slots : PostChatSaveConversation(r)
  \/ \E r \in Slots : PostChatSaveUserMessage(r)
  \/ \E r \in Slots, raw \in {"http", " reply "} : PostChatProviderReturn(r, raw)
  \/ \E r \in Slots : PostChatSaveAiMessage(r)
  \/ \E r \in Slots : PostChatSaveLastMessageAt(r)
  \/ \E r \in Slots, u \in ClerkIds, cid \in KnownOrUnknown : GetMessagesStart(r, u, cid, 1, 50)
  \/ \E r \in Slots : GetMessagesFindConversation(r)
  \/ \E r \in Slots : GetMessagesFind(r)

SpecSeq == InitSeq /\ [][NextSeq]_vars

\* --------------------------------- the companion routes, requests in flight
InitCompanions ==
  /\ companions = << Companion("Alex", "u1", TRUE, 1), Companion("Alex", "u2", TRUE, 2),
                     Companion("Luna", "u1", FALSE, 3) >>
  /\ conversations = <<>>
  /\ messages = <<>>
  /\ users = <<>>
  /\ now = 3
  /\ env = [openai |-> TRUE, gemini |-> FALSE]
  /\ reqs = [r \in Slots |-> Idle]
  /\ conc = MaxConc
  /\ left = MaxConc
  /\ calls = [openai |-> 0, gemini |-> 0]

NextCompanions == CompanionStarts \/ CompanionSteps

SpecCompanions == InitCompanions /\ [][NextCompanions]_vars

\* ------------------------------------------------------------- /api/auth
PasswordMin == 6

\* The schema's lowercase setter on email, applied to stored values and to
\* query filters alike.
Lower(email) ==
  CASE email = "A@x.com" -> "a@x.com"
    [] email = "D@x.com" -> "d@x.com"
    [] email = "E@x.com" -> "e@x.com"
    [] OTHER -> email

\* bcrypt.hash in the pre-save hook: a digest, never the plaintext.
Hash(password) == <<"bcrypt", password>>

\* bcrypt.compare
Compare(entered, digest) == digest = Hash(entered)

\* a stored password of <<>> is an absent password (accounts of the external
\* identity provider)
User(email, password, role, active, clerkId) ==
  [email |-> Lower(email), password |-> password, role |-> role,
   isActive |-> active, clerkId |-> clerkId]

\* A registration that makes every new account an administrator.
DefaultRoleAdmin == "admin"

\* userSchema.role: default "user"; register passes no role to new User()
DefaultRole == "user"

\* isEmail()
IsEmail(email) == email \notin {"", "bad"}

\* A lookup that compares the address as typed, without the setter.
FindUserByTypedEmail(email) ==
  LET hits == {i \in 1..Len(users) : users[i].email = email}
  IN IF hits = {} THEN 0 ELSE CHOOSE i \in hits : \A j \in hits : i <= j

\* User.findOne({email}); 0 when none
FindUserByEmail(email) ==
  LET hits == {i \in 1..Len(users) : users[i].email = Lower(email)}
  IN IF hits = {} THEN 0 ELSE CHOOSE i \in hits : \A j \in hits : i <= j

\* A lookup that forgets the active flag.
FindAnyUserByEmail(email) == FindUserByEmail(email)

\* User.findOne({email, isActive: true}).select("+password"); 0 when none
FindActiveUserByEmail(email) ==
  LET hits == {i \in 1..Len(users) : users[i].email = Lower(email) /\ users[i].isActive}
  IN IF hits = {} THEN 0 ELSE CHOOSE i \in hits : \A j \in hits : i <= j

\* userSchema.methods.matchPassword
matchPassword(user, entered) ==
  IF user.password = <<>> THEN FALSE ELSE Compare(entered, user.password)

InvalidCredentials == Resp(401, "Invalid credentials")

\* The unique index on email: a write is accepted iff no other record, active
\* or not, holds the (lowercased) address.
EmailIndexAccepts(email, self) ==
  ~ \E i \in 1..Len(users) : i # self /\ users[i].email = Lower(email)

\* POST /api/auth/login: validation, then the lookup of the active user
LoginStart(r, email, password) ==
  /\ CanStart(r)
  /\ left' = left - 1
  /\ LET rec == [Idle EXCEPT !.kind = "login", !.email = email, !.password = password,
                             !.found = FindActiveUserByEmail(email)]
     IN IF ~IsEmail(email) \/ password = "" THEN Finish(r, [rec EXCEPT !.found = 0], ValidationFailed)
        ELSE IF rec.found = 0 THEN Finish(r, rec, InvalidCredentials)
        ELSE Goto(r, rec, "matchPassword")
  /\ UNCHANGED <<companions, conversations, messages, users, now, env, conc, calls>>

\* user.matchPassword(password) on the document read by the lookup, then the
\* token and the response
LoginMatch(r) ==
  /\ reqs[r].kind = "login" /\ reqs[r].pc = "matchPassword"
  /\ Finish(r, reqs[r],
            IF matchPassword(users[reqs[r].found], reqs[r].password)
              THEN RespData(200, "Login successful", <<reqs[r].found>>, 0)
              ELSE InvalidCredentials)
  /\ UNCHANGED <<companions, conversations, messages, users, now, env, conc, left, calls>>

\* POST /api/auth/register: validation, then User.findOne({email})
RegisterStart(r, email, password) ==
  /\ CanStart(r)
  /\ left' = left - 1
  /\ LET rec == [Idle EXCEPT !.kind = "register", !.email = email, !.password = password,
                             !.seen = Len(users)]
     IN IF ~IsEmail(email) \/ TextLen(password) < PasswordMin
          THEN Finish(r, rec, ValidationFailed)
        ELSE IF FindUserByEmail(email) # 0
          THEN Finish(r, rec, Resp(400, "User already exists with this email"))
        ELSE Goto(r, rec, "save")
  /\ UNCHANGED <<companions, conversations, messages, users, now, env, conc, calls>>

\* user.save(): the pre-save hook digests the password; the unique index on
\* email refuses a second record with the same address.
RegisterSave(r) ==
  /\ reqs[r].kind = "register" /\ reqs[r].pc = "save"
  /\ IF ~EmailIndexAccepts(reqs[r].email, 0)
       THEN /\ Finish(r, reqs[r], ServerError)
            /\ UNCHANGED users
       ELSE /\ users' = Append(users,
                 User(reqs[r].email, Hash(reqs[r].password), DefaultRole, TRUE, ""))
            /\ Finish(r, [reqs[r] EXCEPT !.created = Len(users) + 1],
                      RespData(201, "User registered successfully", <<Len(users) + 1>>, 0))
  /\ UNCHANGED <<companions, conversations, messages, now, env, conc, left, calls>>

\* ------------------------------------------------- the local-token guard
\* A bearer token is 0 when the header carries none, negative when jwt.verify
\* rejects it (bad signature, expired), and otherwise the user id it embeds.
TokenValues == -1..(Len(users) + 1)

\* A guard that forgets the active flag.
AuthRefusalActiveUnchecked(token) ==
  IF token = 0 THEN Resp(401, "Access denied. No token provided.")
  ELSE IF token < 0 THEN Resp(401, "Token is not valid.")
  ELSE IF token \notin 1..Len(users) THEN Resp(401, "Token is not valid. User not found.")
  ELSE NoResp

\* auth: what the guard answers, NoResp when it calls next()
AuthRefusal(token) ==
  IF token = 0 THEN Resp(401, "Access denied. No token provided.")
  ELSE IF token < 0 THEN Resp(401, "Token is not valid.")
  ELSE IF token \notin 1..Len(users) THEN Resp(401, "Token is not valid. User not found.")
  ELSE IF ~users[token].isActive THEN Resp(401, "User account is deactivated.")
  ELSE NoResp

GuardedRoutes == {"listUsers", "deleteUser", "updateProfile"}

\* A request for a route behind auth arrives: the header check, jwt.verify
\* and User.findById; req.user is the document read here.
auth(r, token, kind, id, email) ==
  /\ CanStart(r)
  /\ left' = left - 1
  /\ LET rec == [Idle EXCEPT !.kind = kind, !.found = token, !.cid = id, !.email = email]
     IN IF AuthRefusal(token) # NoResp THEN Finish(r, rec, AuthRefusal(token))
        ELSE Goto(r, rec, "handler")
  /\ UNCHANGED <<companions, conversations, messages, users, now, env, conc, calls>>

\* A role check that lets everyone through.
IsAdminAnyone(user) == TRUE

\* req.user.role === "admin"
IsAdmin(user) == user.role = "admin"

AdminOnly == Resp(403, "Access denied. Admin only.")

\* GET /api/users: the role check, then User.find({isActive: true})
ListUsers(r) ==
  /\ reqs[r].kind = "listUsers" /\ reqs[r].pc = "handler"
  /\ LET ids == {i \in 1..Len(users) : users[i].isActive}
     IN IF ~IsAdmin(users[reqs[r].found]) THEN Finish(r, reqs[r], AdminOnly)
        ELSE Finish(r, reqs[r],
                    RespData(200, "", SelectSeq([i \in 1..Len(users) |-> i],
                                                LAMBDA i : i \in ids), Cardinality(ids)))
  /\ UNCHANGED <<companions, conversations, messages, users, now, env, conc, left, calls>>

\* DELETE /api/users/:id: the role check, then User.findById
DeleteUserFind(r) ==
  /\ reqs[r].kind = "deleteUser" /\ reqs[r].pc = "handler"
  /\ IF ~IsAdmin(users[reqs[r].found]) THEN Finish(r, reqs[r], AdminOnly)
     ELSE IF reqs[r].cid \notin 1..Len(users)
       THEN Finish(r, reqs[r], Resp(404, "User not found"))
     ELSE Goto(r, reqs[r], "deactivate")
  /\ UNCHANGED <<companions, conversations, messages, users, now, env, conc, left, calls>>

\* User.findByIdAndUpdate(id, {isActive: false})
DeleteUserApply(r) ==
  /\ reqs[r].kind = "deleteUser" /\ reqs[r].pc = "deactivate"
  /\ users' = [users EXCEPT ![reqs[r].cid].isActive = FALSE]
  /\ Finish(r, reqs[r], Resp(200, "User deleted successfully"))
  /\ UNCHANGED <<companions, conversations, messages, now, env, conc, left, calls>>

\* PUT /api/users/profile: validation, then User.findByIdAndUpdate of the
\* caller's own record; a duplicate-key error is answered 400.  email "" is
\* an absent field.
UpdateProfile(r) ==
  /\ reqs[r].kind = "updateProfile" /\ reqs[r].pc = "handler"
  /\ IF reqs[r].email # "" /\ ~IsEmail(reqs[r].email)
       THEN /\ Finish(r, reqs[r], ValidationFailed)
            /\ UNCHANGED users
     ELSE IF reqs[r].email = ""
       THEN /\ Finish(r, reqs[r], RespData(200, "", <<reqs[r].found>>, 0))
            /\ UNCHANGED users
     ELSE IF ~EmailIndexAccepts(reqs[r].email, reqs[r].found)
       THEN /\ Finish(r, reqs[r], Resp(400, "Email already exists"))
            /\ UNCHANGED users
     ELSE /\ users' = [users EXCEPT ![reqs[r].found].email = Lower(reqs[r].email)]
          /\ Finish(r, [reqs[r] EXCEPT !.created = reqs[r].found],
                    RespData(200, "", <<reqs[r].found>>, 0))
  /\ UNCHANGED <<companions, conversations, messages, now, env, conc, left, calls>>

\* A local administrator, a local account, a deactivated local account and
\* an account of the external identity provider without a password.
InitAuth ==
  /\ companions = <<>>
  /\ conversations = <<>>
  /\ messages = <<>>
  /\ users = << User("a@x.com", Hash("secret1"), "admin", TRUE, ""),
                User("b@x.com", Hash("secret1"), "user", FALSE, ""),
                User("c@x.com", <<>>, "user", TRUE, "u1") >>
  /\ now = 3
  /\ env = [openai |-> TRUE, gemini |-> FALSE]
  /\ reqs = [r \in Slots |-> Idle]
  /\ conc = 1
  /\ left = MaxSeq
  /\ calls = [openai |-> 0, gemini |-> 0]

LoginEmails == {"A@x.com", "b@x.com", "c@x.com", "d@x.com", "z@x.com", "bad"}

Passwords == {"secret1", "wrong1", "short", ""}

NextAuth ==
  \/ \E r \in Slots, email \in LoginEmails, password \in Passwords : LoginStart(r, email, password)
  \/ \E r \in Slots : LoginMatch(r)
  \/ \E r \in Slots, email \in {"D@x.com", "A@x.com", "b@x.com", "bad"}, password \in Passwords :
       RegisterStart(r, email, password)
  \/ \E r \in Slots : RegisterSave(r)
  \/ \E r \in Slots, token \in TokenValues : auth(r, token, "listUsers", 0, "")
  \/ \E r \in Slots, token \in TokenValues, id \in 1..(Len(users) + 1) :
       auth(r, token, "deleteUser", id, "")
  \/ \E r \in Slots, token \in TokenValues, email \in {"", "b@x.com", "E@x.com", "bad"} :
       auth(r, token, "updateProfile", 0, email)
  \/ \E r \in Slots : ListUsers(r)
  \/ \E r \in Slots : DeleteUserFind(r)
  \/ \E r \in Slots : DeleteUserApply(r)
  \/ \E r \in Slots : UpdateProfile(r)

SpecAuth == InitAuth /\ [][NextAuth]_vars

\* ------------------------------------- registrations and profile edits racing
InitAuthRace ==
  /\ companions = <<>>
  /\ conversations = <<>>
  /\ messages = <<>>
  /\ users = << User("a@x.com", Hash("secret1"), "admin", TRUE, ""),
                User("b@x.com", Hash("secret1"), "user", FALSE, ""),
                User("c@x.com", <<>>, "user", TRUE, "u1") >>
  /\ now = 3
  /\ env = [openai |-> TRUE, gemini |-> FALSE]
  /\ reqs = [r \in Slots |-> Idle]
  /\ conc = MaxConc
  /\ left = MaxConc
  /\ calls = [openai |-> 0, gemini |-> 0]

NextAuthRace ==
  \/ \E r \in Slots, email \in {"D@x.com", "d@x.com"} : RegisterStart(r, email, "secret1")
  \/ \E r \in Slots : RegisterSave(r)
  \/ \E r \in Slots, email \in {"d@x.com", "E@x.com"} : auth(r, 1, "updateProfile", 0, email)
  \/ \E r \in Slots : UpdateProfile(r)
  \/ \E r \in Slots, email \in {"A@x.com", "d@x.com"} : LoginStart(r, email, "secret1")
  \/ \E r \in Slots : LoginMatch(r)

SpecAuthRace == InitAuthRace /\ [][NextAuthRace]_vars

\* ----------------------------------------- the default-content seeder
\* DEFAULT_COMPANIONS, by name
DefaultNames == <<"Alex", "Luna", "Marcus">>

\* One template as stored for a user: the schema has no path "type", so the
\* record carries nothing that marks it but its fixed texts.
Template(k, u, t) == [Companion(DefaultNames[k], u, TRUE, t) EXCEPT !.description = "template"]

\* Companion.find({userId, isActive: true})
ActiveCompanionsOf(u) == {i \in CompanionIds : companions[i].userId = u /\ companions[i].isActive}

\* createDefaultCompanions(userId) invoked on its own
InvokeSeeder(r, u) ==
  /\ CanStart(r)
  /\ left' = left - 1
  /\ Goto(r, [Idle EXCEPT !.kind = "seed", !.user = u], "seedFind")
  /\ UNCHANGED <<companions, conversations, messages, users, now, env, conc, calls>>

\* Where createDefaultCompanions returns to: its caller's response when it
\* was invoked on its own, the guard's next() otherwise.
SeederReturns(r, rec, data) ==
  IF rec.kind = "seed" THEN Finish(r, rec, RespData(200, "", data, Len(data)))
  ELSE Goto(r, rec, "next")

\* the check for existing companions
SeedFind(r) ==
  /\ reqs[r].pc = "seedFind"
  /\ IF ActiveCompanionsOf(reqs[r].user) # {}
       THEN SeederReturns(r, reqs[r], <<>>)
       ELSE Goto(r, [reqs[r] EXCEPT !.seen = 0], "seedCreate")
  /\ UNCHANGED <<companions, conversations, messages, users, now, env, conc, left, calls>>

\* Companion.create(companionsToCreate): one insert per template; seen counts
\* the templates inserted so far.
SeedCreate(r) ==
  /\ reqs[r].pc = "seedCreate"
  /\ companions' = Append(companions, Template(reqs[r].seen + 1, reqs[r].user, now + 1))
  /\ now' = now + 1
  /\ LET rec == [reqs[r] EXCEPT !.seen = @ + 1]
         first == Len(companions) - reqs[r].seen + 1
     IN IF rec.seen < Len(DefaultNames) THEN Goto(r, rec, "seedCreate")
        ELSE SeederReturns(r, rec, <<first, first + 1, first + 2>>)
  /\ UNCHANGED <<conversations, messages, users, env, conc, left, calls>>

\* ------------------------------------------- the external-identity guard
\* The address the identity provider reports for an identity.
ClerkEmail(id) ==
  CASE id = "u1" -> "c@x.com"
    [] id = "u3" -> "n@x.com"
    [] id = "u4" -> "a@x.com"
    [] OTHER -> id

\* A lookup that resolves the identity by its address at the provider.
FindUserByProviderEmail(id) == FindUserByEmail(ClerkEmail(id))

\* User.findOne({clerkId}); 0 when none
FindUserByClerkId(id) ==
  LET hits == {i \in 1..Len(users) : users[i].clerkId = id}
  IN IF hits = {} THEN 0 ELSE CHOOSE i \in hits : \A j \in hits : i <= j

\* The unique sparse index on clerkId.
ClerkIdIndexAccepts(id) == FindUserByClerkId(id) = 0

\* A request for a route behind clerkAuth arrives; token "" is an absent
\* header, "bad" a token verifyToken rejects, otherwise the identity (sub) of
\* a token the provider verifies.
clerkAuth(r, token, kind, name) ==
  /\ CanStart(r)
  /\ left' = left - 1
  /\ LET rec == [Idle EXCEPT !.kind = kind, !.user = token, !.name = Trim(name)]
     IN IF token = "" THEN Finish(r, rec, Resp(401, "No token provided"))
        ELSE IF token = "bad" THEN Finish(r, rec, Resp(401, "Token verification failed"))
        ELSE Goto(r, rec, "syncFind")
  /\ UNCHANGED <<companions, conversations, messages, users, now, env, conc, calls>>

\* auto-sync: User.findOne({clerkId})
ClerkSyncFind(r) ==
  /\ reqs[r].pc = "syncFind"
  /\ LET found == FindUserByClerkId(reqs[r].user)
     IN Goto(r, [reqs[r] EXCEPT !.found = found], IF found = 0 THEN "syncSave" ELSE "next")
  /\ UNCHANGED <<companions, conversations, messages, users, now, env, conc, left, calls>>

\* A guard that answers a failed sync as a failed verification.
SyncFailureRejects(r, rec) == Finish(r, rec, Resp(401, "Token verification failed"))

\* The catch blocks around the auto-sync and around the seeder: the error is
\* logged and the guard goes on to next().
SyncFailure(r, rec) == Goto(r, rec, "next")

\* auto-sync: localUser.save(); a refused insert is caught and logged, the
\* seeder is skipped and the request goes on.
ClerkSyncSave(r) ==
  /\ reqs[r].pc = "syncSave"
  /\ IF ClerkIdIndexAccepts(reqs[r].user) /\ EmailIndexAccepts(ClerkEmail(reqs[r].user), 0)
       THEN /\ users' = Append(users, User(ClerkEmail(reqs[r].user), <<>>, "user", TRUE, reqs[r].user))
            /\ Goto(r, [reqs[r] EXCEPT !.found = Len(users) + 1, !.called = TRUE], "seedFind")
       ELSE /\ SyncFailure(r, reqs[r])
            /\ UNCHANGED users
  /\ UNCHANGED <<companions, conversations, messages, now, env, conc, left, calls>>

\* The store call the guard is waiting for throws (the store is unreachable,
\* say): the lookup, the insert of the user, the seeder's lookup or one of its
\* inserts.
ClerkStoreError(r) ==
  /\ reqs[r].pc \in {"syncFind", "syncSave", "seedFind", "seedCreate"}
  /\ reqs[r].kind # "seed"
  /\ SyncFailure(r, [reqs[r] EXCEPT !.raw = "throw"])
  /\ UNCHANGED <<companions, conversations, messages, users, now, env, conc, left, calls>>

ClerkRoutes == {"list", "create"}

\* next(): the handler runs up to its first store call.  GET /companions
\* answers; POST /companions checks the name.
ClerkNext(r) ==
  /\ reqs[r].pc = "next" /\ reqs[r].kind \in ClerkRoutes
  /\ IF reqs[r].kind = "list"
       THEN Finish(r, reqs[r],
                   RespData(200, "", NewestFirst(ActiveCompanionsOf(reqs[r].user)),
                            Cardinality(ActiveCompanionsOf(reqs[r].user))))
     ELSE IF NameTaken(reqs[r].name, reqs[r].user, 0) THEN Finish(r, reqs[r], NameConflict)
     ELSE Goto(r, [reqs[r] EXCEPT !.seen = Len(companions)], "save")
  /\ UNCHANGED <<companions, conversations, messages, users, now, env, conc, left, calls>>

\* POST /api/clerk-auth/sync-user, behind the guard: User.findOne({clerkId})
SyncUserFind(r) ==
  /\ reqs[r].pc = "next" /\ reqs[r].kind = "syncUser"
  /\ Goto(r, [reqs[r] EXCEPT !.found = FindUserByClerkId(reqs[r].user)], "syncUserSave")
  /\ UNCHANGED <<companions, conversations, messages, users, now, env, conc, left, calls>>

SyncFailed == Resp(500, "Failed to sync user data")

\* localUser.save(): a new record when the lookup found none, otherwise the
\* provider's address written to the record found; a refused write lands in
\* the catch.
SyncUserSave(r) ==
  /\ reqs[r].pc = "syncUserSave"
  /\ LET email == ClerkEmail(reqs[r].user)
         found == reqs[r].found
     IN IF found = 0
          THEN IF ClerkIdIndexAccepts(reqs[r].user) /\ EmailIndexAccepts(email, 0)
                 THEN /\ users' = Append(users, User(email, <<>>, "user", TRUE, reqs[r].user))
                      /\ Finish(r, [reqs[r] EXCEPT !.created = Len(users) + 1],
                                RespData(200, "User synced successfully", <<Len(users) + 1>>, 0))
                 ELSE /\ Finish(r, reqs[r], SyncFailed)
                      /\ UNCHANGED users
          ELSE IF EmailIndexAccepts(email, found)
                 THEN /\ users' = [users EXCEPT ![found].email = Lower(email)]
                      /\ Finish(r, reqs[r],
                                RespData(200, "User synced successfully", <<found>>, 0))
                 ELSE /\ Finish(r, reqs[r], SyncFailed)
                      /\ UNCHANGED users
  /\ UNCHANGED <<companions, conversations, messages, now, env, conc, left, calls>>

\* The address a user.updated event carries for an identity.
WebhookEmail(id) ==
  CASE id = "u1" -> "w@x.com"
    [] OTHER -> "a@x.com"

\* POST /api/clerk-auth/webhook: user.created only logs, user.updated writes
\* the event's address to the record of the identity, user.deleted clears
\* its isActive.
Webhook(r, type, id) ==
  /\ CanStart(r)
  /\ left' = left - 1
  /\ LET found == FindUserByClerkId(id)
         rec == [Idle EXCEPT !.kind = "webhook", !.user = id, !.name = type, !.found = found]
     IN IF type = "user.deleted" /\ found # 0
          THEN /\ users' = [users EXCEPT ![found].isActive = FALSE]
               /\ Finish(r, rec, Resp(200, "received"))
        ELSE IF type = "user.updated" /\ found # 0
          THEN IF EmailIndexAccepts(WebhookEmail(id), found)
                 THEN /\ users' = [users EXCEPT ![found].email = Lower(WebhookEmail(id))]
                      /\ Finish(r, rec, Resp(200, "received"))
                 ELSE /\ users' = users
                      /\ Finish(r, rec, Resp(500, "Webhook processing failed"))
        ELSE /\ users' = users
             /\ Finish(r, rec, Resp(200, "received"))
  /\ UNCHANGED <<companions, conversations, messages, now, env, conc, calls>>

\* A local account and one synced, seeded identity; u3 and u4 are identities
\* the store has not seen, u4 with the address of the local account.
ClerkStore ==
  /\ companions = << Template(1, "u1", 1), Template(2, "u1", 2), Template(3, "u1", 3) >>
  /\ conversations = <<>>
  /\ messages = <<>>
  /\ users = << User("a@x.com", Hash("secret1"), "admin", TRUE, ""),
                User("c@x.com", <<>>, "user", TRUE, "u1") >>
  /\ now = 3
  /\ env = [openai |-> TRUE, gemini |-> FALSE]
  /\ reqs = [r \in Slots |-> Idle]
  /\ calls = [openai |-> 0, gemini |-> 0]

ClerkGuarded == ClerkRoutes \cup {"syncUser"}

NextClerk ==
  \/ \E r \in Slots, token \in {"", "bad"} : clerkAuth(r, token, "list", "")
  \/ \E r \in Slots, token \in {"u1", "u3", "u4"} : clerkAuth(r, token, "list", "")
  \/ \E r \in Slots : clerkAuth(r, "u3", "create", "Alex")
  \/ \E r \in Slots, token \in {"u1", "u3"} : clerkAuth(r, token, "syncUser", "")
  \/ \E r \in Slots : ClerkSyncFind(r)
  \/ \E r \in Slots : ClerkSyncSave(r)
  \/ \E r \in Slots : ClerkStoreError(r)
  \/ \E r \in Slots : SeedFind(r)
  \/ \E r \in Slots : SeedCreate(r)
  \/ \E r \in Slots : ClerkNext(r)
  \/ \E r \in Slots : CreateCompanionSave(r)
  \/ \E r \in Slots : SyncUserFind(r)
  \/ \E r \in Slots : SyncUserSave(r)
  \/ \E r \in Slots, type \in {"user.updated", "user.deleted"} : Webhook(r, type, "u1")
  \/ \E r \in Slots, type \in {"user.created", "user.deleted"} : Webhook(r, type, "u3")

\* requests in flight together
InitClerk == ClerkStore /\ conc = MaxConc /\ left = MaxConc

SpecClerk == InitClerk /\ [][NextClerk]_vars

\* requests served one at a time
InitClerkSeq == ClerkStore /\ conc = 1 /\ left = MaxSeq

SpecClerkSeq == InitClerkSeq /\ [][NextClerk]_vars

\* ------------------------- every route that writes a User, one at a time
\* The local accounts and the synced identity of InitAuth, with the local
\* routes and the routes of the external identity provider.
NextUsers == NextAuth \/ NextClerk

SpecUsers == InitAuth /\ [][NextUsers]_vars

\* ------------------------------ every route around a conversation, in turn
\* The companions of InitChat and one with a name of 91 characters, the
\* administrator and the local record of identity u1.  The chat routes, the
\* companion update and delete, the deactivation of a user by the
\* administrator and by the webhook, and the first request of identity u3.
InitStore ==
  /\ companions = << Companion("Alex", "u1", TRUE, 1), Companion("Alex", "u2", TRUE, 2),
                     Companion("Luna", "u1", FALSE, 3), Companion("LONG91", "u1", TRUE, 4) >>
  /\ conversations = <<>>
  /\ messages = <<>>
  /\ users = << User("a@x.com", Hash("secret1"), "admin", TRUE, ""),
                User("c@x.com", <<>>, "user", TRUE, "u1") >>
  /\ now = 4
  /\ env = [openai |-> TRUE, gemini |-> FALSE]
  /\ reqs = [r \in Slots |-> Idle]
  /\ conc = 1
  /\ left = MaxSeq
  /\ calls = [openai |-> 0, gemini |-> 0]

NextStore ==
  \/ \E r \in Slots, u \in ClerkIds, cid \in {1, 2, 4} : PostChatStart(r, u, cid, " hi ", "")
  \/ \E r \in Slots : PostChatFindConversation(r)
  \/ \E r \in Slots : PostChatSaveConversation(r)
  \/ \E r \in Slots : PostChatSaveUserMessage(r)
  \/ \E r \in Slots, raw \in {"http", " reply "} : PostChatProviderReturn(r, raw)
  \/ \E r \in Slots : PostChatSaveAiMessage(r)
  \/ \E r \in Slots : PostChatSaveLastMessageAt(r)
  \/ \E r \in Slots, u \in ClerkIds, cid \in 1..2 : GetMessagesStart(r, u, cid, 1, 50)
  \/ \E r \in Slots : GetMessagesFindConversation(r)
  \/ \E r \in Slots : GetMessagesFind(r)
  \/ \E r \in Slots, u \in ClerkIds : ListConversations(r, u)
  \/ \E r \in Slots, u \in ClerkIds, id \in 1..2 : UpdateCompanionStart(r, u, id, "Luna", "")
  \/ \E r \in Slots : UpdateCompanionApply(r)
  \/ \E r \in Slots, u \in ClerkIds, id \in 1..2 : DeleteCompanionStart(r, u, id)
  \/ \E r \in Slots : DeleteCompanionApply(r)
  \/ \E r \in Slots : auth(r, 1, "deleteUser", 2, "")
  \/ \E r \in Slots : DeleteUserFind(r)
  \/ \E r \in Slots : DeleteUserApply(r)
  \/ \E r \in Slots : Webhook(r, "user.deleted", "u1")
  \/ \E r \in Slots : clerkAuth(r, "u3", "list", "")
  \/ \E r \in Slots : ClerkSyncFind(r)
  \/ \E r \in Slots : ClerkSyncSave(r)
  \/ \E r \in Slots : SeedFind(r)
  \/ \E r \in Slots : SeedCreate(r)
  \/ \E r \in Slots : ClerkNext(r)

SpecStore == InitStore /\ [][NextStore]_vars

\* ------------------------------------------- the seeder invoked redundantly
InitSeeder ==
  /\ companions = << Companion("Alex", "u1", TRUE, 1), Companion("Alex", "u2", TRUE, 2),
                     Companion("Luna", "u1", FALSE, 3) >>
  /\ conversations = <<>>
  /\ messages = <<>>
  /\ users = <<>>
  /\ now = 3
  /\ env = [openai |-> TRUE, gemini |-> FALSE]
  /\ reqs = [r \in Slots |-> Idle]
  /\ conc = MaxConc
  /\ left = MaxConc + 1
  /\ calls = [openai |-> 0, gemini |-> 0]

NextSeeder ==
  \/ \E r \in Slots, u \in {"u1", "u3"} : InvokeSeeder(r, u)
  \/ \E r \in Slots : SeedFind(r)
  \/ \E r \in Slots : SeedCreate(r)
  \/ \E r \in Slots, id \in KnownOrUnknown : DeleteCompanionStart(r, "u3", id)
  \/ \E r \in Slots : DeleteCompanionApply(r)

SpecSeeder == InitSeeder /\ [][NextSeeder]_vars

\* ================================================================== claims
ConversationsOf(u, c) ==
  {i \in 1..Len(conversations) :
     conversations[i].userId = u /\ conversations[i].companionId = c}

\* C1: under any interleaving of POST /chat requests, a (user, companion) pair
\* never has more than one Conversation record (so never more than one active
\* one), and has exactly one as soon as a request has created one.
C1_OneConversationPerPair ==
  /\ \A u \in ClerkIds, c \in CompanionIds : Cardinality(ConversationsOf(u, c)) <= 1
  /\ \A r \in Slots :
       reqs[r].kind = "chat" /\ reqs[r].created # 0
         => Cardinality(ConversationsOf(reqs[r].user, reqs[r].cid)) = 1

\* Two first messages of one pair raced: both found no conversation, one
\* created it, the other's insert was refused.
C1_Witness ==
  \E r1, r2 \in Slots :
    /\ r1 # r2
    /\ reqs[r1].kind = "chat" /\ reqs[r2].kind = "chat"
    /\ reqs[r1].user = reqs[r2].user /\ reqs[r1].cid = reqs[r2].cid
    /\ reqs[r1].created # 0
    /\ reqs[r2].pc = "done" /\ reqs[r2].conv = 0 /\ reqs[r2].resp = ServerError

\* C4: every POST /chat request that passed validation and companion
\* resolution has, once answered, its message stored as a Message with
\* isUser = TRUE, under any interleaving.
C4_UserMessageNeverLost ==
  \A r \in Slots :
    (/\ reqs[r].kind = "chat"
     /\ reqs[r].pc = "done"
     /\ reqs[r].cname # "")
      => /\ reqs[r].umsg \in 1..Len(messages)
         /\ messages[reqs[r].umsg].isUser
         /\ messages[reqs[r].umsg].content = reqs[r].msg
         /\ messages[reqs[r].umsg].userId = reqs[r].user

\* A chat request that was answered after its companion was resolved.
ChatAnswered(r) ==
  reqs[r].kind = "chat" /\ reqs[r].pc = "done" /\ reqs[r].cname # ""

\* The request's selected model has no API key configured.
KeyMissing(r) ==
  \/ reqs[r].model = "openai" /\ ~env.openai
  \/ reqs[r].model = "gemini" /\ ~env.gemini

\* What the provider's answer lacks: an OK status, a completion, its text.
Unusable(raw) == raw \in {"throw", "http", "nochoice", "", "  "}

\* C2: a POST /chat request answered with success has appended exactly two
\* Message records to its conversation, the caller's message (isUser = TRUE)
\* before the companion's reply (isUser = FALSE), and has left the
\* conversation's lastMessageAt not earlier than the value it found.
C2_SuccessAppendsTwo ==
  \A r \in Slots :
    (ChatAnswered(r) /\ reqs[r].resp.status = 200)
      => LET n == reqs[r].seen
             c == reqs[r].conv
         IN /\ Len(messages) = n + 2
            /\ messages[n + 1].isUser /\ messages[n + 1].content = reqs[r].msg
            /\ ~messages[n + 2].isUser /\ messages[n + 2].content = reqs[r].reply
            /\ messages[n + 1].conversationId = c /\ messages[n + 2].conversationId = c
            /\ messages[n + 1].timestamp <= messages[n + 2].timestamp
            /\ conversations[c].userId = reqs[r].user
            /\ conversations[c].companionId = reqs[r].cid
            /\ conversations[c].lastMessageAt >= reqs[r].last0

\* A second successful exchange in a conversation that already had messages.
C2_Witness ==
  \E r \in Slots :
    /\ ChatAnswered(r) /\ reqs[r].resp.status = 200
    /\ reqs[r].last0 > 0 /\ reqs[r].seen >= 2
    /\ reqs[r].model = "gemini"

C5_ProviderFailureIsReported ==
  \A r \in Slots :
    (ChatAnswered(r) /\ reqs[r].called /\ Unusable(reqs[r].raw))
      => LET c == reqs[r].conv
         IN /\ reqs[r].resp.status = 500
            /\ reqs[r].resp.message =
                 "Failed to get response from " \o reqs[r].model \o " model"
            /\ reqs[r].resp.error # ""
            /\ reqs[r].resp.data = <<>>
            /\ Len(messages) = reqs[r].seen + 1
            /\ messages[Len(messages)].isUser
            /\ conversations[c].lastMessageAt =
                 IF reqs[r].created = c THEN conversations[c].createdAt ELSE reqs[r].last0

\* the provider answered with blank text to a request in an older conversation
C5_Witness ==
  \E r \in Slots :
    /\ ChatAnswered(r) /\ reqs[r].called /\ reqs[r].raw = "  "
    /\ reqs[r].created = 0
    /\ reqs[r].resp.status = 500

\* Another active companion of the same owner carries the name.
OtherActiveNamed(name, u, self) ==
  \E i \in 1..Len(companions) :
    /\ i # self
    /\ companions[i].isActive
    /\ companions[i].userId = u
    /\ companions[i].name = name

\* C6: served one after another, a create is rejected with 400 and adds no
\* record exactly when an active companion of the same owner has the name (a
\* companion of another owner or an inactive one does not count), and an
\* update that names a companion's new name is rejected exactly when another
\* active companion of the same owner has it, so keeping the own name passes.
C6_NameUniqueSequential ==
  \A r \in Slots :
    /\ (reqs[r].kind = "create" /\ reqs[r].pc = "done")
         => IF OtherActiveNamed(reqs[r].name, reqs[r].user, reqs[r].created)
              THEN /\ reqs[r].resp.status = 400
                   /\ reqs[r].created = 0
                   /\ Len(companions) = reqs[r].seen
              ELSE /\ reqs[r].resp.status = 201
                   /\ Len(companions) = reqs[r].seen + 1
                   /\ reqs[r].created = Len(companions)
                   /\ companions[reqs[r].created].name = reqs[r].name
                   /\ companions[reqs[r].created].userId = reqs[r].user
                   /\ companions[reqs[r].created].isActive
    /\ (reqs[r].kind = "update" /\ reqs[r].pc = "done" /\ reqs[r].name # "")
         => IF OtherActiveNamed(reqs[r].name, reqs[r].user, reqs[r].cid)
              THEN reqs[r].resp.status = 400
              ELSE \/ /\ reqs[r].resp.status = 200
                      /\ companions[reqs[r].cid].name = reqs[r].name
                      /\ companions[reqs[r].cid].userId = reqs[r].user
                   \/ /\ reqs[r].resp.status = 404
                      /\ ~ (/\ reqs[r].cid \in 1..Len(companions)
                            /\ companions[reqs[r].cid].userId = reqs[r].user
                            /\ companions[reqs[r].cid].isActive)

\* An update that keeps the companion's own name was accepted while the other
\* owner holds a companion of the same name.
C6_Witness ==
  \E r \in Slots :
    /\ reqs[r].kind = "update" /\ reqs[r].pc = "done"
    /\ reqs[r].user = "u1" /\ reqs[r].cid = 1 /\ reqs[r].name = "Alex"
    /\ reqs[r].resp.status = 200
    /\ companions[2].name = "Alex" /\ companions[2].isActive

\* C7: in every reachable state no two active companions of one owner have
\* the same name.
C7_NoDuplicateActiveNames ==
  \A i, j \in 1..Len(companions) :
    (/\ i # j
     /\ companions[i].isActive /\ companions[j].isActive
     /\ companions[i].userId = companions[j].userId)
      => companions[i].name # companions[j].name

\* C8: after the owner's DELETE the record is still stored and inactive, the
\* list and the get-by-id no longer show an inactive companion, and the
\* messages of its conversation are still stored and the owner can read them
\* back through the message history.
C8_SoftDeleteKeepsHistory ==
  \A r \in Slots :
    reqs[r].pc = "done" =>
      /\ (reqs[r].kind = "delete" /\ reqs[r].resp.status = 200)
           => reqs[r].cid \in 1..Len(companions) /\ ~companions[reqs[r].cid].isActive
      /\ reqs[r].kind = "list"
           => \A k \in 1..Len(reqs[r].resp.data) : companions[reqs[r].resp.data[k]].isActive
      /\ (/\ reqs[r].kind = "get"
          /\ reqs[r].cid \in 1..Len(companions)
          /\ ~companions[reqs[r].cid].isActive)
           => reqs[r].resp = CompanionNotFound
      /\ (/\ reqs[r].kind = "messages"
          /\ reqs[r].cid \in 1..Len(companions)
          /\ companions[reqs[r].cid].userId = reqs[r].user
          /\ ~companions[reqs[r].cid].isActive
          /\ FindConversation(reqs[r].user, reqs[r].cid) # 0)
           => /\ reqs[r].resp.status = 200
              /\ {reqs[r].resp.data[k] : k \in 1..Len(reqs[r].resp.data)}
                   = {i \in 1..Len(messages) :
                        messages[i].conversationId = FindConversation(reqs[r].user, reqs[r].cid)}

\* The request a step works on, 0 when the step is none of a request.
Stepped ==
  IF \E r \in Slots : reqs'[r] # reqs[r]
    THEN CHOOSE r \in Slots : reqs'[r] # reqs[r]
    ELSE 0

\* The step works on a request of caller A for a stored companion X that is
\* inactive or owned by another user.
OnForeignOrInactive(r) ==
  /\ reqs'[r].kind \in {"get", "update", "delete", "messages", "chat"}
  /\ reqs'[r].cid \in 1..Len(companions)
  /\ \/ companions[reqs'[r].cid].userId # reqs'[r].user
     \/ ~companions[reqs'[r].cid].isActive

StoreUnchanged ==
  /\ companions' = companions
  /\ conversations' = conversations
  /\ messages' = messages

\* No response carries a record of another user.
NothingForeignReturned(r) ==
  reqs'[r].pc = "done" =>
    \A k \in 1..Len(reqs'[r].resp.data) :
      IF reqs'[r].kind \in {"list", "get", "create", "update", "delete"}
        THEN companions'[reqs'[r].resp.data[k]].userId = reqs'[r].user
      ELSE IF reqs'[r].kind \in {"messages", "chat"}
        THEN messages'[reqs'[r].resp.data[k]].userId = reqs'[r].user
      ELSE TRUE

\* C9 (amended): a request by A for a companion X that is inactive or owned by
\* another user changes no Companion, Conversation or Message record and is
\* answered 404, except that a PUT whose body gives the name of one of A's own
\* active companions is answered 400 for the name; and no response to A
\* carries a record owned by another user.
C9_ForeignOrInactiveIsNotFound ==
  [][ Stepped # 0 =>
        /\ NothingForeignReturned(Stepped)
        /\ OnForeignOrInactive(Stepped) =>
             /\ StoreUnchanged
             /\ reqs'[Stepped].pc = "done" =>
                  IF /\ reqs'[Stepped].kind = "update"
                     /\ reqs'[Stepped].name # ""
                     /\ OtherActiveNamed(reqs'[Stepped].name, reqs'[Stepped].user,
                                         reqs'[Stepped].cid)
                    THEN reqs'[Stepped].resp = NameConflict
                    ELSE reqs'[Stepped].resp = CompanionNotFound ]_vars

\* C9 as stated: every such request is answered 404 and changes nothing.
C9_AlwaysNotFound ==
  [][ Stepped # 0 =>
        /\ NothingForeignReturned(Stepped)
        /\ OnForeignOrInactive(Stepped) =>
             /\ StoreUnchanged
             /\ reqs'[Stepped].pc = "done" => reqs'[Stepped].resp = CompanionNotFound ]_vars

\* u1's PUT on u2's companion was answered 404 and the record is as it was.
C9_Witness ==
  \E r \in Slots :
    /\ reqs[r].kind = "update" /\ reqs[r].pc = "done"
    /\ reqs[r].user = "u1" /\ reqs[r].cid = 2 /\ reqs[r].msg = "d1"
    /\ reqs[r].resp = CompanionNotFound
    /\ companions[2] = Companion("Alex", "u2", TRUE, 2)

\* The login cannot succeed: no account has the address, the account is
\* deactivated, it has no local password, or the password is not its own.
LoginMustFail(email, password) ==
  \A i \in 1..Len(users) :
    \/ users[i].email # Lower(email)
    \/ ~users[i].isActive
    \/ users[i].password = <<>>
    \/ users[i].password # Hash(password)

\* C10: a well-formed login that fails for an unknown address, a deactivated
\* account, a wrong password or an account without a local password is
\* answered with one and the same response, 401 "Invalid credentials",
\* whichever of the conditions it was.
C10_LoginFailuresIdentical ==
  \A r \in Slots :
    (/\ reqs[r].kind = "login" /\ reqs[r].pc = "done"
     /\ IsEmail(reqs[r].email) /\ reqs[r].password # ""
     /\ LoginMustFail(reqs[r].email, reqs[r].password))
      => reqs[r].resp = InvalidCredentials

\* The deactivated account was refused although the password was its own,
\* with the answer an unknown address gets.
C10_Witness ==
  \E r \in Slots :
    /\ reqs[r].kind = "login" /\ reqs[r].pc = "done"
    /\ reqs[r].email = "b@x.com" /\ reqs[r].password = "secret1"
    /\ users[2].password = Hash("secret1") /\ ~users[2].isActive
    /\ reqs[r].resp = InvalidCredentials

\* The request's body fails the validation chain of POST /chat.
ChatBodyRejected(rec) ==
  \/ rec.cid = 0
  \/ TextLen(rec.msg) < 1
  \/ TextLen(rec.msg) > ChatMessageMax
  \/ rec.model \notin Models \cup {""}

\* The companionId names no active companion of the caller.
ChatCompanionUnresolved(rec) ==
  ~ (/\ rec.cid \in 1..Len(companions)
     /\ companions[rec.cid].userId = rec.user
     /\ companions[rec.cid].isActive)

\* C18: a POST /chat request rejected before the exchange starts is answered
\* 400 when its body is invalid and 404 when its companionId names no active
\* companion of the caller, and it leaves the Conversation and Message
\* collections unchanged and contacts no provider.
C18_RejectedChatChangesNothing ==
  [][ (/\ Stepped # 0
       /\ reqs'[Stepped].kind = "chat"
       /\ reqs[Stepped].pc \in {"idle", "done"}
       /\ \/ ChatBodyRejected(reqs'[Stepped])
          \/ ChatCompanionUnresolved(reqs'[Stepped]))
        => /\ reqs'[Stepped].pc = "done"
           /\ reqs'[Stepped].resp.status =
                IF ChatBodyRejected(reqs'[Stepped]) THEN 400 ELSE 404
           /\ conversations' = conversations
           /\ messages' = messages
           /\ calls' = calls ]_vars

\* The ids of a conversation's messages, oldest first.
Chronological(conv) ==
  SelectSeq([i \in 1..Len(messages) |-> i],
            LAMBDA i : messages[i].conversationId = conv)

\* Entries from..to of a sequence, as far as it reaches.
Slice(seq, from, to) ==
  IF from > Len(seq) THEN <<>>
  ELSE SubSeq(seq, from, IF to > Len(seq) THEN Len(seq) ELSE to)

\* C19: the message history is paged chronologically: page p of size n holds
\* the messages number (p-1)n+1 .. pn of the conversation counted from the
\* oldest, in ascending order, so that the pages in page order list the
\* conversation oldest to newest, and count is the conversation's total.
C19_HistoryPagedOldestFirst ==
  \A r \in Slots :
    (/\ reqs[r].kind = "messages" /\ reqs[r].pc = "done"
     /\ reqs[r].resp.status = 200 /\ reqs[r].conv # 0)
      => /\ reqs[r].resp.data =
              Slice(Chronological(reqs[r].conv),
                    (reqs[r].page - 1) * reqs[r].limit + 1,
                    reqs[r].page * reqs[r].limit)
         /\ reqs[r].resp.count = Len(Chronological(reqs[r].conv))

\* C20: whenever no request is in flight, the lastMessageAt of every
\* conversation is not earlier than the timestamp of any message stored for
\* it, also after a chat request that ended in a configuration or provider
\* error.
C20_LastMessageAtCoversMessages ==
  (\A r \in Slots : reqs[r].pc \in {"idle", "done"})
    => \A i \in 1..Len(messages) :
         conversations[messages[i].conversationId].lastMessageAt >= messages[i].timestamp

\* C11: served one after another, no two User records, active or not, hold
\* the same email; a registration with an address some record already holds
\* (a deactivated one included) is answered 400 and adds no record; and a
\* login with an active account's own password succeeds while any other is
\* answered 401.
C11_EmailUnique ==
  /\ \A i, j \in 1..Len(users) : i # j => users[i].email # users[j].email
  /\ \A r \in Slots :
       /\ (/\ reqs[r].kind = "register" /\ reqs[r].pc = "done"
           /\ \E i \in 1..Len(users) : i # reqs[r].created /\ users[i].email = Lower(reqs[r].email))
            => /\ reqs[r].resp.status = 400
               /\ reqs[r].created = 0
               /\ Len(users) = reqs[r].seen
       /\ (/\ reqs[r].kind = "login" /\ reqs[r].pc = "done"
           /\ IsEmail(reqs[r].email) /\ reqs[r].password # "")
            => IF LoginMustFail(reqs[r].email, reqs[r].password)
                 THEN reqs[r].resp.status = 401
                 ELSE /\ reqs[r].resp.status = 200
                      /\ users[reqs[r].resp.data[1]].email = Lower(reqs[r].email)

\* A registration with the address of the deactivated account was refused
\* and the store still holds the three accounts it had.
C11_Witness ==
  \E r \in Slots :
    /\ reqs[r].kind = "register" /\ reqs[r].pc = "done"
    /\ reqs[r].email = "b@x.com" /\ reqs[r].password = "secret1"
    /\ reqs[r].resp = Resp(400, "User already exists with this email")
    /\ Len(users) = 3 /\ ~users[2].isActive

\* C12: when requests race on the unique email, exactly one write succeeds
\* and a request whose write did not succeed is answered 400, not a server
\* error.
C12_RaceLoserGetsConflict ==
  /\ \A i, j \in 1..Len(users) : i # j => users[i].email # users[j].email
  /\ \A r \in Slots :
       (/\ reqs[r].kind \in {"register", "updateProfile"}
        /\ reqs[r].pc = "done"
        /\ reqs[r].created = 0)
         => reqs[r].resp.status = 400

\* The step is the arrival of a request.
Arrives(r) == reqs[r].pc \in {"idle", "done"}

\* C13: a request for a route behind the local-token guard reaches its handler
\* only if its token is present, verifies and names an existing active user;
\* otherwise it is answered 401 on arrival, no handler step follows and no
\* record changes.  A token of a user deactivated earlier is therefore refused.
C13_LocalGuard ==
  [][ (/\ Stepped # 0
       /\ reqs'[Stepped].kind \in GuardedRoutes
       /\ Arrives(Stepped))
        => IF /\ reqs'[Stepped].found \in 1..Len(users)
              /\ users[reqs'[Stepped].found].isActive
             THEN reqs'[Stepped].pc = "handler"
             ELSE /\ reqs'[Stepped].pc = "done"
                  /\ reqs'[Stepped].resp.status = 401
                  /\ users' = users ]_vars

\* The administrator was deactivated by DELETE /users/1 and a later request
\* with the administrator's token was refused.
C13_Witness ==
  \E r \in Slots :
    /\ reqs[r].kind \in GuardedRoutes /\ reqs[r].pc = "done"
    /\ reqs[r].found = 1 /\ ~users[1].isActive
    /\ reqs[r].resp = Resp(401, "User account is deactivated.")

\* C17: GET /users and DELETE /users/:id by a caller who is no admin are
\* answered 403 and change nothing; DELETE /users/:id by an admin changes
\* only the target's isActive, to FALSE: no record is removed and no other
\* field and no other user changes.
C17_AdminOnly ==
  [][ (/\ Stepped # 0
       /\ reqs'[Stepped].kind \in {"listUsers", "deleteUser"}
       /\ ~Arrives(Stepped))
        => /\ users[reqs[Stepped].found].role # "admin"
             => /\ reqs'[Stepped].resp = AdminOnly
                /\ reqs'[Stepped].pc = "done"
                /\ users' = users
           /\ reqs'[Stepped].resp.status = 200 /\ reqs'[Stepped].kind = "deleteUser"
             => /\ users[reqs[Stepped].found].role = "admin"
                /\ users' = [users EXCEPT ![reqs[Stepped].cid].isActive = FALSE]
           /\ Len(users') = Len(users)
           /\ \A i \in 1..Len(users) :
                \/ users'[i] = users[i]
                \/ /\ i = reqs[Stepped].cid
                   /\ reqs'[Stepped].resp.status = 200
                   /\ users'[i] = [users[i] EXCEPT !.isActive = FALSE] ]_vars

\* A registered user without the admin role asked to delete the
\* administrator, was answered 403, and the administrator is still active.
C17_Witness ==
  \E r \in Slots :
    /\ reqs[r].kind = "deleteUser" /\ reqs[r].pc = "done"
    /\ Len(users) >= 4
    /\ reqs[r].found = 4 /\ users[4].role = "user"
    /\ reqs[r].cid = 1 /\ users[1].isActive
    /\ reqs[r].resp = AdminOnly

\* C14: a request through the external-identity guard by an identity whose
\* local account is deactivated (by the user.deleted webhook, say) is
\* answered 401 and no handler runs for it.
C14_DeactivatedIsUnauthorized ==
  \A r \in Slots :
    (/\ reqs[r].kind \in ClerkRoutes /\ reqs[r].pc = "done"
     /\ FindUserByClerkId(reqs[r].user) # 0
     /\ ~users[FindUserByClerkId(reqs[r].user)].isActive)
      => reqs[r].resp.status = 401

\* No request is in flight.
Quiescent == \A r \in Slots : reqs[r].pc \in {"idle", "done"}

\* The active default companions of a user.
DefaultsOf(u) == {i \in ActiveCompanionsOf(u) : companions[i].description = "template"}

\* C15: once the first requests of a new identity through the guard are
\* served, in whatever interleaving, the identity has exactly three default
\* companions, Alex, Luna and Marcus: never none, never more.
C15_SeededExactlyOnce ==
  Quiescent =>
    \A u \in {"u3", "u4"} :
      (\E r \in Slots : /\ reqs[r].user = u /\ reqs[r].kind \in ClerkRoutes
                        /\ reqs[r].pc = "done" /\ reqs[r].resp.status # 401)
        => /\ Cardinality(DefaultsOf(u)) = 3
           /\ {companions[i].name : i \in DefaultsOf(u)} = {"Alex", "Luna", "Marcus"}

\* C16: an invocation of createDefaultCompanions(u) returns an empty list, or
\* the three templates it inserted for u; and however the invocations
\* overlap, no user has two active default companions of one name.
C16_SeederIdempotent ==
  /\ \A r \in Slots :
       (reqs[r].kind = "seed" /\ reqs[r].pc = "done") =>
         \/ reqs[r].resp.data = <<>>
         \/ /\ Len(reqs[r].resp.data) = 3
            /\ \A k \in 1..3 :
                 /\ companions[reqs[r].resp.data[k]].name = DefaultNames[k]
                 /\ companions[reqs[r].resp.data[k]].userId = reqs[r].user
  /\ \A u \in {"u1", "u3"} :
       \A i, j \in DefaultsOf(u) : i # j => companions[i].name # companions[j].name

\* The guard's own steps: the auto-sync and the seeder it invokes.
InGuard(rec) ==
  /\ rec.kind \in {"list", "create", "syncUser"}
  /\ rec.pc \in {"syncFind", "syncSave", "seedFind", "seedCreate"}

\* C25: once the token is verified, every step of the external-identity guard
\* (the lookup, the insert of the local user, the seeder), whether its store
\* call succeeds, is refused by a unique index or throws, keeps the caller
\* identity attached, sends no response, and leads on to the route handler:
\* a failed sync or seeding never ends the request with a 401 or a 500.
C25_SyncFailureIsSwallowed ==
  [][ Stepped # 0 =>
        /\ (/\ Arrives(Stepped)
            /\ reqs'[Stepped].kind \in {"list", "create", "syncUser"}
            /\ reqs'[Stepped].user \notin {"", "bad"})
             => reqs'[Stepped].pc = "syncFind" /\ reqs'[Stepped].resp = NoResp
        /\ InGuard(reqs[Stepped])
             => /\ reqs'[Stepped].pc \in {"syncSave", "seedFind", "seedCreate", "next"}
                /\ reqs'[Stepped].user = reqs[Stepped].user
                /\ reqs'[Stepped].kind = reqs[Stepped].kind
                /\ reqs'[Stepped].resp = NoResp ]_vars

\* Identity u4, whose address is held by a local account, could not be
\* synced, and its GET /companions was answered by the handler all the same;
\* and a request whose store call threw in the guard was answered 200.
C25_Witness ==
  /\ \E r \in Slots :
       /\ reqs[r].kind = "list" /\ reqs[r].pc = "done" /\ reqs[r].user = "u4"
       /\ reqs[r].resp.status = 200 /\ reqs[r].raw # "throw"
       /\ FindUserByClerkId("u4") = 0
  /\ \E r \in Slots :
       /\ reqs[r].pc = "done" /\ reqs[r].raw = "throw" /\ reqs[r].resp.status = 200

\* C26: under any interleaving of the guard's auto-sync, sync-user and the
\* webhook events, no two User records carry the same external identity id,
\* and the local user the guard or sync-user resolved for a request carries
\* the identity of the request's verified token.
C26_OneUserPerIdentity ==
  /\ \A i, j \in 1..Len(users) :
       (i # j /\ users[i].clerkId # "") => users[i].clerkId # users[j].clerkId
  /\ \A r \in Slots :
       (reqs[r].kind \in {"list", "create", "syncUser"} /\ reqs[r].found # 0)
         => users[reqs[r].found].clerkId = reqs[r].user

\* Two first requests of identity u3 raced: one created the local user, the
\* other's insert was refused by the index on clerkId, and one record exists.
C26_Witness ==
  \E r1, r2 \in Slots :
    /\ r1 # r2
    /\ reqs[r1].user = "u3" /\ reqs[r2].user = "u3"
    /\ reqs[r1].called /\ reqs[r1].found # 0
    /\ reqs[r2].kind = "list" /\ reqs[r2].pc = "done"
    /\ reqs[r2].found = 0 /\ reqs[r2].raw # "throw"
    /\ Cardinality({i \in 1..Len(users) : users[i].clerkId = "u3"}) = 1

\* C29: no step of register, login, profile update, auto-sync, sync-user,
\* webhook or admin deactivation changes the role of a stored user, removes a
\* user, or adds a user whose role is not "user"; so the administrators are
\* the same users in every state.
C29_RolesNeverChange ==
  [][ /\ Len(users') >= Len(users)
      /\ \A i \in 1..Len(users) : users'[i].role = users[i].role
      /\ \A i \in (Len(users) + 1)..Len(users') : users'[i].role = "user"
      /\ {i \in 1..Len(users') : users'[i].role = "admin"}
           = {i \in 1..Len(users) : users[i].role = "admin"} ]_vars

\* An account was registered and the administrator deactivated: the new
\* account has the role user and the administrator still the role admin.
C29_Witness ==
  /\ Len(users) >= 4
  /\ users[4].role = "user" /\ users[4].clerkId = ""
  /\ users[1].role = "admin" /\ ~users[1].isActive

\* C21: no step of any route (chat, companion update or delete, user
\* deactivation, identity sync, webhook) removes or changes a stored Message:
\* the collection only grows and every stored record keeps its content,
\* sender flag, conversation id and timestamp.
C21_MessagesImmutable ==
  [][ /\ Len(messages') >= Len(messages)
      /\ \A i \in 1..Len(messages) : messages'[i] = messages[i] ]_vars

\* Messages were exchanged with a companion that was then soft-deleted, and
\* the user was deactivated: both messages are stored as written.
C21_Witness ==
  /\ Len(messages) = 2
  /\ messages[1].isUser /\ messages[1].content = "hi"
  /\ ~messages[2].isUser /\ messages[2].content = "reply"
  /\ ~companions[messages[1].companionId].isActive
  /\ ~users[2].isActive

\* C22: a Conversation is added only by a step of POST /chat, as an active
\* record of the caller and the companion titled "Chat with " and the
\* companion's name; no route removes one, and every stored conversation
\* stays active with its user, companion and title, also when its companion is
\* soft-deleted or its user deactivated.
C22_ConversationsStayActive ==
  [][ /\ Len(conversations') >= Len(conversations)
      /\ \A i \in 1..Len(conversations) :
           /\ conversations'[i].isActive
           /\ conversations'[i].userId = conversations[i].userId
           /\ conversations'[i].companionId = conversations[i].companionId
           /\ conversations'[i].title = conversations[i].title
      /\ Len(conversations') > Len(conversations)
           => /\ Len(conversations') = Len(conversations) + 1
              /\ Stepped # 0
              /\ reqs[Stepped].kind = "chat"
              /\ LET c == conversations'[Len(conversations')]
                 IN /\ c.isActive
                    /\ c.userId = reqs[Stepped].user
                    /\ c.companionId = reqs[Stepped].cid
                    /\ c.title = "Chat with " \o companions[reqs[Stepped].cid].name ]_vars

\* u1's conversation with Alex is active and titled as created although
\* Alex was soft-deleted and u1 deactivated.
C22_Witness ==
  /\ Len(conversations) >= 1
  /\ conversations[1].isActive /\ conversations[1].title = "Chat with Alex"
  /\ conversations[1].userId = "u1" /\ conversations[1].companionId = 1
  /\ ~companions[1].isActive
  /\ ~users[2].isActive

\* C27: in every state every stored Message names a stored Conversation
\* whose user and companion are the message's, and the companion is a stored
\* companion of that user (a companion's owner never changes, so it was the
\* user's when the message was written).
C27_MessagesBelongToConversation ==
  \A i \in 1..Len(messages) :
    LET m == messages[i]
    IN /\ m.conversationId \in 1..Len(conversations)
       /\ conversations[m.conversationId].userId = m.userId
       /\ conversations[m.conversationId].companionId = m.companionId
       /\ m.companionId \in 1..Len(companions)
       /\ companions[m.companionId].userId = m.userId

\* An exchange was completed with a companion that is soft-deleted by now:
\* its two messages name the caller's conversation with that companion.
C27_Witness ==
  \E r \in Slots :
    /\ reqs[r].kind = "chat" /\ reqs[r].pc = "done" /\ reqs[r].resp.status = 200
    /\ ~companions[reqs[r].cid].isActive
    /\ Len(messages) = 2
    /\ messages[2].conversationId = reqs[r].conv /\ messages[2].userId = reqs[r].user

\* The messages of a conversation sent by the user (TRUE) or the companion.
MessagesOf(c, isUser) ==
  {i \in 1..Len(messages) : messages[i].conversationId = c /\ messages[i].isUser = isUser}

\* C28: under any interleaving of POST /chat requests no conversation holds
\* more companion messages than user messages.
C28_RepliesNeverOutnumber ==
  \A c \in 1..Len(conversations) :
    Cardinality(MessagesOf(c, FALSE)) <= Cardinality(MessagesOf(c, TRUE))

\* Two requests raced in one conversation: both user messages were stored
\* before the first reply.
C28_Witness ==
  /\ Len(messages) = 3
  /\ messages[1].isUser /\ messages[2].isUser /\ ~messages[3].isUser
  /\ messages[1].conversationId = messages[3].conversationId
  /\ messages[2].conversationId = messages[3].conversationId

\* The request has called a provider.
Dispatched(r) == reqs[r].kind = "chat" /\ reqs[r].sent.provider # "none"

\* The last min(HistoryKeep, |h|) entries of h, in their order.
Recent(h) ==
  LET k == IF Len(h) < HistoryKeep THEN Len(h) ELSE HistoryKeep
  IN [i \in 1..k |-> h[Len(h) - k + i]]

\* The list of messages a provider's request body carries.
SentSequence(body) == IF body.provider = "openai" THEN body.messages ELSE body.contents

\* C23 as stated: for both providers the sequence sent is the system prompt,
\* the last min(10, |h|) entries of h in order and the message as the final
\* user entry, min(10, |h|) + 2 entries in all.
C23_SequenceForBothProviders ==
  \A r \in Slots :
    Dispatched(r) =>
      LET seq == SentSequence(reqs[r].sent)
          recent == Recent(reqs[r].history)
      IN /\ Len(seq) = Len(recent) + 2
         /\ seq = <<[role |-> "system", content |-> buildSystemPrompt(reqs[r].cname)]>>
                    \o recent \o <<[role |-> "user", content |-> reqs[r].msg]>>

\* C23 (amended): the openai request carries the messages as stated: the
\* system prompt, the last min(10, |h|) entries of h in order, the message as
\* the final user entry.  The gemini request carries one content of one text,
\* which holds in this order the system prompt, the last min(10, |h|) entries
\* of h each labelled as the user's or the assistant's (under a heading, when
\* there are any), the message labelled as the user's and the cue for the
\* assistant.  No entry of h older than the last 10 is sent to either.
C23_AssembledInOrder ==
  \A r \in Slots :
    Dispatched(r) =>
      LET body == reqs[r].sent
          recent == Recent(reqs[r].history)
          labelled == [i \in 1..Len(recent) |->
                         <<IF recent[i].role = "user" THEN "User: " ELSE "Assistant: ",
                           recent[i].content>>]
      IN IF body.provider = "openai"
           THEN /\ Len(body.messages) = Len(recent) + 2
                /\ body.messages =
                     <<[role |-> "system", content |-> buildSystemPrompt(reqs[r].cname)]>>
                       \o recent \o <<[role |-> "user", content |-> reqs[r].msg]>>
           ELSE /\ Len(body.contents) = 1
                /\ Len(body.contents[1].parts) = 1
                /\ body.contents[1].parts[1].text =
                     <<<<"", buildSystemPrompt(reqs[r].cname)>>>>
                       \o (IF Len(recent) > 0
                             THEN <<<<"Previous conversation:", "">>>> \o labelled
                             ELSE <<>>)
                       \o <<<<"User: ", reqs[r].msg>>, <<"Assistant:", "">>>>

\* Both providers were sent a history longer than ten entries.
C23_Witness ==
  /\ \E r \in Slots :
       /\ Dispatched(r) /\ reqs[r].sent.provider = "openai"
       /\ Len(reqs[r].history) > HistoryKeep
       /\ Len(reqs[r].sent.messages) = HistoryKeep + 2
  /\ calls.gemini > 0 /\ calls.openai > 0

\* C24: every request body sent to a provider carries the token budget 200
\* and the temperature 0.7: max_tokens and temperature for openai,
\* generationConfig for gemini.
C24_FixedBudgetAndTemperature ==
  \A r \in Slots :
    Dispatched(r) =>
      LET body == reqs[r].sent
      IN IF body.provider = "openai"
           THEN /\ "max_tokens" \in DOMAIN body /\ body.max_tokens = MaxTokens
                /\ "temperature" \in DOMAIN body /\ body.temperature = Temperature
           ELSE /\ "generationConfig" \in DOMAIN body
                /\ body.generationConfig.maxOutputTokens = MaxTokens
                /\ body.generationConfig.temperature = Temperature

\* The handler of a chat request is running.
ChatInFlight(r) == reqs[r].kind = "chat" /\ reqs[r].pc \notin {"idle", "done"}

\* C30: when every awaited store and provider call returns or throws, every
\* POST /chat request in flight is eventually answered, and a request has
\* been sent no response while its handler runs and exactly one once it has
\* ended, whichever path it took.
C30_ExactlyOneResponse ==
  /\ [](\A r \in Slots :
          reqs[r].kind = "chat" =>
            /\ ChatInFlight(r) => reqs[r].responses = 0 /\ reqs[r].resp = NoResp
            /\ reqs[r].pc = "done" => reqs[r].responses = 1 /\ reqs[r].resp.status # 0)
  /\ \A r \in Slots : ChatInFlight(r) ~> (reqs[r].pc = "done" /\ reqs[r].responses = 1)

\* Two requests raced: one lost the insert of the conversation and was
\* answered 500 by the outer catch, the other's provider call threw and it
\* was answered with the provider's error.
C30_Witness ==
  \E r1, r2 \in Slots :
    /\ reqs[r1].kind = "chat" /\ reqs[r1].pc = "done"
    /\ reqs[r1].resp = ServerError /\ reqs[r1].conv = 0
    /\ reqs[r2].kind = "chat" /\ reqs[r2].pc = "done"
    /\ reqs[r2].raw = "throw" /\ reqs[r2].resp.status = 500
    /\ reqs[r1].responses = 1 /\ reqs[r2].responses = 1

====
